---------------------------- MODULE Spec2Model ----------------------------
(***************************************************************************)
(* Model of the shellsort-gaps experiment engine:                          *)
(*   - the instrumented Shellsort engine (shellsort.c),                    *)
(*   - the gap-sequence validator (shellsort.c),                           *)
(*   - the gap-sequence generators (gaps_baselines.h, gaps_candidate.h),   *)
(*   - the main loops of the four benchmark drivers.                       *)
(*                                                                         *)
(* C arrays are 0-indexed; they are modelled as TLA+ sequences and always  *)
(* read and written through At/Put, which take the C index.                *)
(***************************************************************************)
EXTENDS Integers, Sequences, FiniteSets, TLC

(***************************************************************************)
(* Bounds of the model.                                                    *)
(***************************************************************************)
\* longest input array over the value set Vals
MaxLen == 4
\* longest strictly descending (reverse-sorted) input array
MaxDesc == 5
\* largest gap value drawn for the sort engine and the validator
MaxGap == 4
\* longest gap sequence, and largest gap in it, drawn to violate an invariant
MaxBad == 2
\* the generators are called with every max_gap in 0..MaxSmall
MaxSmall == 30
\* most sizes given to bench.c on its command line
MaxSizes == 2
\* most trials a dataset holds
MaxTrials == 1
\* largest size and most trials given to permgen
MaxPermN == 4
MaxPermTrials == 2
\* width in bits of the reduced words rng_uniform is explored on
WordBits == 5
\* most raw words one call of rng_uniform draws
MaxDraws == 3
\* largest N and most trials of a dataset file given to a loader
MaxLoadN == 2
MaxLoadTrials == 2
\* most trials of the dataset given to a parallel trial loop
MaxParTrials == 3
\* most trials of the count vectors given to the statistics
MaxStatN == 4
\* longest array given to rng_shuffle on its own
MaxShuffleN == 5
\* most threads given to a parallel trial loop
MaxThreads == 2

\* int32 values the input arrays are drawn from (the comparison is signed)
Vals == {-1, 0, 1}

(***************************************************************************)
(* Helpers for C arrays.                                                   *)
(***************************************************************************)
At(a, idx) == a[idx + 1]

Put(a, idx, v) == [a EXCEPT ![idx + 1] = v]

\* all sequences over S of length lo..hi
SeqsOf(S, lo, hi) == UNION {[1..k -> S] : k \in lo..hi}

\* the multiset of values of an array, as a function value -> count
BagOf(a) == [v \in {a[k] : k \in DOMAIN a} |-> Cardinality({k \in DOMAIN a : a[k] = v})]

IsAscending(a) == \A k \in 1..(Len(a) - 1) : a[k] <= a[k + 1]

\* the reverse-sorted array of length len: len, len-1, ..., 1
Descending(len) == [k \in 1..len |-> len + 1 - k]

(***************************************************************************)
(* gap_sequence_t: the populated prefix gaps[0..num_gaps-1] and num_gaps.  *)
(***************************************************************************)
GapSeq(name, gs) == [name |-> name, gaps |-> gs, num_gaps |-> Len(gs)]

(***************************************************************************)
(* gap_sequence_valid (shellsort.c).  The reason buffer is modelled by the *)
(* format string chosen and the values printed into it; when reason is     *)
(* NULL nothing is written.                                                *)
(***************************************************************************)
Unwritten == [text |-> "", args |-> <<>>]

Reason(hasReason, text, args) ==
    IF hasReason THEN [text |-> text, args |-> args] ELSE Unwritten

\* mutant: the loop accepts equal neighbours (< for <=)
RECURSIVE valid_loop_duplicates(_, _, _)
valid_loop_duplicates(seq, hasReason, i) ==
    IF ~(i < seq.num_gaps)
    THEN [ret |-> 1, reason |-> Unwritten]
    ELSE IF At(seq.gaps, i) = 0
    THEN [ret |-> 0, reason |-> Reason(hasReason, "Gap %zu is zero", <<i>>)]
    ELSE IF i > 0 /\ At(seq.gaps, i) < At(seq.gaps, i - 1)
    THEN [ret |-> 0,
          reason |-> Reason(hasReason,
                            "Not strictly increasing: gaps[%zu]=%lu <= gaps[%zu]=%lu",
                            <<i, At(seq.gaps, i), i - 1, At(seq.gaps, i - 1)>>)]
    ELSE valid_loop_duplicates(seq, hasReason, i + 1)

\* mutant: the loop tests the order of the pair before it tests for zero
RECURSIVE valid_loop_order_first(_, _, _)
valid_loop_order_first(seq, hasReason, i) ==
    IF ~(i < seq.num_gaps)
    THEN [ret |-> 1, reason |-> Unwritten]
    ELSE IF i > 0 /\ At(seq.gaps, i) <= At(seq.gaps, i - 1)
    THEN [ret |-> 0,
          reason |-> Reason(hasReason,
                            "Not strictly increasing: gaps[%zu]=%lu <= gaps[%zu]=%lu",
                            <<i, At(seq.gaps, i), i - 1, At(seq.gaps, i - 1)>>)]
    ELSE IF At(seq.gaps, i) = 0
    THEN [ret |-> 0, reason |-> Reason(hasReason, "Gap %zu is zero", <<i>>)]
    ELSE valid_loop_order_first(seq, hasReason, i + 1)

\* the for loop of gap_sequence_valid, from index i on
RECURSIVE valid_loop(_, _, _)
valid_loop(seq, hasReason, i) ==
    IF ~(i < seq.num_gaps)
    THEN [ret |-> 1, reason |-> Unwritten]
    ELSE IF At(seq.gaps, i) = 0
    THEN [ret |-> 0, reason |-> Reason(hasReason, "Gap %zu is zero", <<i>>)]
    ELSE IF i > 0 /\ At(seq.gaps, i) <= At(seq.gaps, i - 1)
    THEN [ret |-> 0,
          reason |-> Reason(hasReason,
                            "Not strictly increasing: gaps[%zu]=%lu <= gaps[%zu]=%lu",
                            <<i, At(seq.gaps, i), i - 1, At(seq.gaps, i - 1)>>)]
    ELSE valid_loop(seq, hasReason, i + 1)

gap_sequence_valid(seq, hasReason) ==
    IF seq.num_gaps = 0
    THEN [ret |-> 0, reason |-> Reason(hasReason, "Empty sequence", <<>>)]
    ELSE IF At(seq.gaps, 0) # 1
    THEN [ret |-> 0,
          reason |-> Reason(hasReason, "First gap must be 1, got %lu",
                            <<At(seq.gaps, 0)>>)]
    ELSE valid_loop(seq, hasReason, 0)

(***************************************************************************)
(* The sequence invariants of the data model, stated independently of the  *)
(* validator's code.                                                       *)
(***************************************************************************)
SeqInvariants(gs) ==
    /\ Len(gs) > 0
    /\ gs[1] = 1
    /\ \A k \in 1..Len(gs) : gs[k] > 0
    /\ \A k \in 2..Len(gs) : gs[k] > gs[k - 1]

(***************************************************************************)
(* Gap-sequence generators (gaps_baselines.h).  Each operator returns the  *)
(* gap_sequence_t the C function leaves in *seq.  max_gap is at most       *)
(* 10,000,000 in this model, so every uint64_t value fits and every        *)
(* product with 2.25 or a ratio n/4 is exact in double precision.          *)
(***************************************************************************)
MAX_GAPS == 64

ciura_base == <<1, 4, 10, 23, 57, 132, 301, 701>>

ciura_ext_base == <<1, 4, 10, 23, 57, 132, 301, 701, 1750>>

evolved_gaps ==
    <<1, 4, 10, 23, 57, 132, 301, 701,
      1577, 3524, 7705, 17961, 40056, 94681, 199137, 460316, 1035711, 3236462>>

\* mutant: the copy loop stops at base[i] < max_gap instead of <=
RECURSIVE copy_base_strict(_, _, _)
copy_base_strict(base, max_gap, gs) ==
    IF Len(gs) < Len(base) /\ At(base, Len(gs)) < max_gap
    THEN copy_base_strict(base, max_gap, Append(gs, At(base, Len(gs))))
    ELSE gs

\* for (i = 0; i < base_len && base[i] <= max_gap; i++)
\*     seq->gaps[seq->num_gaps++] = base[i];
\* (i and num_gaps advance together, both are Len(gs))
RECURSIVE copy_base(_, _, _)
copy_base(base, max_gap, gs) ==
    IF Len(gs) < Len(base) /\ At(base, Len(gs)) <= max_gap
    THEN copy_base(base, max_gap, Append(gs, At(base, Len(gs))))
    ELSE gs

\* (uint64_t)(x * 2.25)
times_2_25(x) == (x * 9) \div 4

\* while (num_gaps < MAX_GAPS) { next = (uint64_t)(gaps[num_gaps - 1] * 2.25);
\*     if (next > max_gap || next <= gaps[num_gaps - 1]) break;
\*     gaps[num_gaps++] = next; }
\* With num_gaps = 0 the read gaps[num_gaps - 1] is out of bounds; stray is
\* the value it finds there.
RECURSIVE extend_2_25(_, _, _)
extend_2_25(gs, max_gap, stray) ==
    IF ~(Len(gs) < MAX_GAPS) THEN gs
    ELSE LET last == IF Len(gs) = 0 THEN stray ELSE At(gs, Len(gs) - 1)
             next == times_2_25(last)
         IN IF next > max_gap \/ next <= last
            THEN gs
            ELSE extend_2_25(Append(gs, next), max_gap, stray)

\* the indices of seq->gaps the extension loop reads (gaps[num_gaps - 1])
RECURSIVE extend_reads(_, _, _)
extend_reads(gs, max_gap, stray) ==
    IF ~(Len(gs) < MAX_GAPS) THEN {}
    ELSE LET last == IF Len(gs) = 0 THEN stray ELSE At(gs, Len(gs) - 1)
             next == times_2_25(last)
         IN {Len(gs) - 1} \cup
            (IF next > max_gap \/ next <= last
             THEN {}
             ELSE extend_reads(Append(gs, next), max_gap, stray))

gaps_ciura(max_gap, stray) ==
    GapSeq("Ciura", extend_2_25(copy_base(ciura_base, max_gap, <<>>), max_gap, stray))

gaps_ciura_extended(max_gap, stray) ==
    GapSeq("Ciura-Extended",
           extend_2_25(copy_base(ciura_ext_base, max_gap, <<>>), max_gap, stray))

gaps_evolved(max_gap, stray) ==
    GapSeq("Evolved", extend_2_25(copy_base(evolved_gaps, max_gap, <<>>), max_gap, stray))

\* (uint64_t)ceil((pow(9.0, k) - pow(4.0, k)) / (5.0 * pow(4.0, k - 1))) for
\* k = 1, 2, ...: the values the expression takes in IEEE-754 double
\* arithmetic (they equal the exact ceiling for every k listed)
tokuda_formula ==
    <<1, 4, 9, 20, 46, 103, 233, 525, 1182, 2660, 5985, 13467, 30301, 68178,
      153401, 345152, 776591, 1747331, 3931496, 8845866, 19903198>>

\* (uint64_t)floor((pow(GAMMA, k) - 1.0) / (GAMMA - 1.0)) for k = 1, 2, ...,
\* GAMMA = 2.243609061420001, as evaluated in IEEE-754 double arithmetic
lee_formula ==
    <<1, 3, 8, 19, 44, 101, 229, 515, 1157, 2598, 5830, 13081, 29350, 65852,
      147747, 331489, 743734, 1668649, 3743799, 8399622, 18845470>>

\* (uint64_t)floor(A * pow(B, (double)k / C)) for k = 0, 1, ..., A = 4.0816,
\* B = 8.5714, C = 2.2449, as evaluated in IEEE-754 double arithmetic
skean_formula ==
    <<4, 10, 27, 72, 187, 488, 1272, 3313, 8627, 22465, 58498, 152328, 396653,
      1032864, 2689522, 7003368, 18236386>>

\* the loop shared by gaps_tokuda and gaps_lee, from k on:
\* for (k = 1; num_gaps < MAX_GAPS; k++) { gap = formula(k);
\*     if (gap > max_gap) break;
\*     if (num_gaps > 0 && gap <= gaps[num_gaps - 1]) {
\*         gap = gaps[num_gaps - 1] + 1; if (gap > max_gap) break; }
\*     gaps[num_gaps++] = gap; }
RECURSIVE bump_loop(_, _, _, _)
bump_loop(formula, max_gap, gs, k) ==
    IF ~(Len(gs) < MAX_GAPS) THEN gs
    ELSE LET raw == formula[k]
         IN IF raw > max_gap THEN gs
            ELSE IF Len(gs) > 0 /\ raw <= At(gs, Len(gs) - 1)
            THEN (IF At(gs, Len(gs) - 1) + 1 > max_gap
                  THEN gs
                  ELSE bump_loop(formula, max_gap,
                                 Append(gs, At(gs, Len(gs) - 1) + 1), k + 1))
            ELSE bump_loop(formula, max_gap, Append(gs, raw), k + 1)

gaps_tokuda(max_gap) == GapSeq("Tokuda", bump_loop(tokuda_formula, max_gap, <<>>, 1))

gaps_lee(max_gap) == GapSeq("Lee-2021", bump_loop(lee_formula, max_gap, <<>>, 1))

\* for (k = 0; num_gaps < MAX_GAPS; k++) { gap = formula(k);
\*     if (gap > max_gap) break;
\*     if (gap <= gaps[num_gaps - 1]) continue;
\*     gaps[num_gaps++] = gap; }
RECURSIVE skean_loop(_, _, _)
skean_loop(max_gap, gs, k) ==
    IF ~(Len(gs) < MAX_GAPS) THEN gs
    ELSE LET raw == skean_formula[k + 1]
         IN IF raw > max_gap THEN gs
            ELSE IF raw <= At(gs, Len(gs) - 1)
            THEN skean_loop(max_gap, gs, k + 1)
            ELSE skean_loop(max_gap, Append(gs, raw), k + 1)

\* seq->gaps[seq->num_gaps++] = 1;  then the loop
gaps_skean(max_gap) == GapSeq("Skean-2023", skean_loop(max_gap, <<1>>, 0))

\* ((uint64_t)1 << (2 * k)) + 3 * ((uint64_t)1 << (k - 1)) + 1
sedgewick_formula(k) == 2 ^ (2 * k) + 3 * 2 ^ (k - 1) + 1

\* for (k = 1; num_gaps < MAX_GAPS; k++) { gap = formula(k);
\*     if (gap > max_gap) break; gaps[num_gaps++] = gap; }
RECURSIVE sedgewick_loop(_, _, _)
sedgewick_loop(max_gap, gs, k) ==
    IF ~(Len(gs) < MAX_GAPS) THEN gs
    ELSE IF sedgewick_formula(k) > max_gap THEN gs
    ELSE sedgewick_loop(max_gap, Append(gs, sedgewick_formula(k)), k + 1)

\* seq->gaps[seq->num_gaps++] = 1;  then the loop
gaps_sedgewick86(max_gap) == GapSeq("Sedgewick-1986", sedgewick_loop(max_gap, <<1>>, 1))

\* (uint64_t)ceil(gap * ratio) for a ratio of ratio4 quarters (ratio4 > 0)
ceil_times(x, ratio4) == (x * ratio4 + 3) \div 4

\* what ceil(gap * ratio) is stepped to: if (next <= gap) next = gap + 1;
next_gap(x, ratio4) ==
    IF ceil_times(x, ratio4) <= x THEN x + 1 ELSE ceil_times(x, ratio4)

\* uint64_t gap = 1; while (num_gaps < MAX_GAPS && gap <= max_gap) {
\*     gaps[num_gaps++] = gap;
\*     [gaps_split_ratio only: ratio = (gap < threshold) ? r1 : r2;]
\*     next = (uint64_t)ceil(gap * ratio); if (next <= gap) next = gap + 1;
\*     gap = next; }
RECURSIVE ratio_loop(_, _, _, _)
ratio_loop(ratio, max_gap, gs, x) ==
    IF Len(gs) < MAX_GAPS /\ x <= max_gap
    THEN ratio_loop(ratio, max_gap, Append(gs, x), next_gap(x, ratio))
    ELSE gs

RECURSIVE split_ratio_loop(_, _, _, _, _, _)
split_ratio_loop(r1, r2, threshold, max_gap, gs, x) ==
    IF Len(gs) < MAX_GAPS /\ x <= max_gap
    THEN split_ratio_loop(r1, r2, threshold, max_gap, Append(gs, x),
                          next_gap(x, IF x < threshold THEN r1 ELSE r2))
    ELSE gs

gaps_ratio(ratio, max_gap) == GapSeq("Ratio", ratio_loop(ratio, max_gap, <<>>, 1))

gaps_split_ratio(r1, r2, threshold, max_gap) ==
    GapSeq("Split", split_ratio_loop(r1, r2, threshold, max_gap, <<>>, 1))

(***************************************************************************)
(* uint64_t arithmetic (rng.h).  A 64-bit word is its eight bytes, least   *)
(* significant first; every operation is taken modulo 2^64 as in C.        *)
(***************************************************************************)
Byte == 256

Bytes64 == 8

\* the word of a small non-negative integer
RECURSIVE to_bytes(_, _)
to_bytes(x, len) == IF len = 0 THEN <<>> ELSE <<x % Byte>> \o to_bytes(x \div Byte, len - 1)

U64(x) == to_bytes(x, Bytes64)

\* limb k (from 0) of a word, 0 outside it
Limb(a, k) == IF k >= 0 /\ k < Len(a) THEN a[k + 1] ELSE 0

RECURSIVE pow2(_)
pow2(k) == IF k = 0 THEN 1 ELSE 2 * pow2(k - 1)

\* bitwise operations on bytes, bit by bit
RECURSIVE xor_bits(_, _, _)
xor_bits(x, y, bits) ==
    IF bits = 0 THEN 0
    ELSE ((x + y) % 2) + 2 * xor_bits(x \div 2, y \div 2, bits - 1)

RECURSIVE or_bits(_, _, _)
or_bits(x, y, bits) ==
    IF bits = 0 THEN 0
    ELSE (IF x % 2 = 1 \/ y % 2 = 1 THEN 1 ELSE 0)
             + 2 * or_bits(x \div 2, y \div 2, bits - 1)

\* a ^ b
xor64(a, b) == [k \in 1..Bytes64 |-> xor_bits(a[k], b[k], 8)]

\* a | b
or64(a, b) == [k \in 1..Bytes64 |-> or_bits(a[k], b[k], 8)]

\* a >> s, 0 < s < 64
shr64(a, s) ==
    LET q == s \div 8
        r == s % 8
    IN  [k \in 1..Bytes64 |->
            (Limb(a, k - 1 + q) \div pow2(r))
                + (Limb(a, k + q) % pow2(r)) * pow2(8 - r)]

\* a << s, 0 < s < 64
shl64(a, s) ==
    LET q == s \div 8
        r == s % 8
    IN  [k \in 1..Bytes64 |->
            ((Limb(a, k - 1 - q) * pow2(r)) % Byte)
                + (Limb(a, k - 2 - q) \div pow2(8 - r))]

\* a + b
RECURSIVE add_carry(_, _, _, _)
add_carry(a, b, k, carry) ==
    IF k > Bytes64 THEN <<>>
    ELSE LET t == a[k] + b[k] + carry
         IN  <<t % Byte>> \o add_carry(a, b, k + 1, t \div Byte)

add64(a, b) == add_carry(a, b, 1, 0)

\* column k (from 0) of the product: the sum of a[i] * b[k - i]
RECURSIVE mul_column(_, _, _, _)
mul_column(a, b, k, idx) ==
    IF idx > k THEN 0
    ELSE Limb(a, idx) * Limb(b, k - idx) + mul_column(a, b, k, idx + 1)

RECURSIVE mul_carry(_, _, _, _)
mul_carry(a, b, k, carry) ==
    IF k >= Bytes64 THEN <<>>
    ELSE LET t == mul_column(a, b, k, 0) + carry
         IN  <<t % Byte>> \o mul_carry(a, b, k + 1, t \div Byte)

\* a * b
mul64(a, b) == mul_carry(a, b, 0, 0)

\* (x << k) | (x >> (64 - k))
rotl(x, k) == or64(shl64(x, k), shr64(x, 64 - k))

\* a word given by its digits in some base, least significant first,
\* reduced modulo a small m > 0
RECURSIVE word_mod(_, _, _, _)
word_mod(a, base, m, k) ==
    IF k > Len(a) THEN 0
    ELSE (a[k] + base * word_mod(a, base, m, k + 1)) % m

\* the digits of a small x in a base
RECURSIVE to_digits(_, _, _)
to_digits(x, base, len) ==
    IF len = 0 THEN <<>> ELSE <<x % base>> \o to_digits(x \div base, base, len - 1)

\* a >= b for two words of the same length, from the top digit down
RECURSIVE digits_ge(_, _, _)
digits_ge(a, b, k) ==
    IF k = 0 THEN TRUE
    ELSE IF a[k] # b[k] THEN a[k] > b[k]
    ELSE digits_ge(a, b, k - 1)

\* a >= x for a word a and a small x
word_ge(a, base, x) == digits_ge(a, to_digits(x, base, Len(a)), Len(a))

\* 2^bits % m
RECURSIVE pow2_mod(_, _)
pow2_mod(bits, m) == IF bits = 0 THEN 1 % m ELSE (2 * pow2_mod(bits - 1, m)) % m

(***************************************************************************)
(* The generator (rng.h): splitmix64 seeds xoshiro256**.                   *)
(***************************************************************************)
\* 0x9e3779b97f4a7c15
GOLDEN == <<21, 124, 74, 127, 185, 121, 55, 158>>

\* 0xbf58476d1ce4e5b9
MIX1 == <<185, 229, 228, 28, 109, 71, 88, 191>>

\* 0x94d049bb133111eb
MIX2 == <<235, 17, 49, 19, 187, 73, 208, 148>>

\* 0x517cc1b727220a95
SEED_N == <<149, 10, 34, 39, 183, 193, 124, 81>>

\* 0x2545f4914f6cdd1d
SEED_TRIAL == <<29, 221, 108, 79, 145, 244, 69, 37>>

\* splitmix64(&state): the new state and the value returned
splitmix64(state) ==
    LET s1 == add64(state, GOLDEN)
        z1 == mul64(xor64(s1, shr64(s1, 30)), MIX1)
        z2 == mul64(xor64(z1, shr64(z1, 27)), MIX2)
    IN  [state |-> s1, value |-> xor64(z2, shr64(z2, 31))]

\* rng_next(rng): the new state s[0..3] and the value returned
rng_next(s) ==
    LET result == mul64(rotl(mul64(At(s, 1), U64(5)), 7), U64(9))
        t == shl64(At(s, 1), 17)
        s2a == xor64(At(s, 2), At(s, 0))
        s3a == xor64(At(s, 3), At(s, 1))
        s1b == xor64(At(s, 1), s2a)
        s0b == xor64(At(s, 0), s3a)
        s2b == xor64(s2a, t)
        s3b == rotl(s3a, 45)
    IN  [s |-> <<s0b, s1b, s2b, s3b>>, value |-> result]

\* rng_seed(rng, seed): four successive splitmix64 values
rng_seed(seed) ==
    LET a == splitmix64(seed)
        b == splitmix64(a.state)
        c == splitmix64(b.state)
        d == splitmix64(c.state)
    IN  <<a.value, b.value, c.value, d.value>>

\* derive_seed(master_seed, n, trial)
derive_seed(master_seed, nn, trial) ==
    LET s1 == xor64(master_seed, mul64(U64(nn), SEED_N))
        s2 == xor64(s1, mul64(U64(trial), SEED_TRIAL))
    IN  splitmix64(s2).value

\* uint64_t threshold = -n % n, in words of the given number of bits
\* no rejection: every raw word is taken
uniform_threshold_none(nn, bits) == 0

uniform_threshold(nn, bits) == (pow2_mod(bits, nn) + nn - (nn % nn)) % nn

\* rng_uniform(rng, n) on the 64-bit generator: draw until a word reaches
\* the threshold; the new state and the value returned
RECURSIVE uniform_loop(_, _, _)
uniform_loop(s, nn, threshold) ==
    LET d == rng_next(s) IN
    IF word_ge(d.value, Byte, threshold)
    THEN [s |-> d.s, value |-> word_mod(d.value, Byte, nn, 1)]
    ELSE uniform_loop(d.s, nn, threshold)

rng_uniform(s, nn) ==
    IF nn = 0 THEN [s |-> s, value |-> 0]
    ELSE uniform_loop(s, nn, uniform_threshold(nn, 64))

\* the swap of rng_shuffle
swap(a, x, y) == Put(Put(a, x, At(a, y)), y, At(a, x))

\* rng_shuffle(rng, arr, n), from index idx down; idx = n - 1 wraps to
\* 2^64 - 1 when n = 0, which the callers modelled here never pass
RECURSIVE shuffle_loop(_, _, _)
shuffle_loop(s, a, idx) ==
    IF ~(idx > 0) THEN a
    ELSE LET d == rng_uniform(s, idx + 1)
         IN  shuffle_loop(d.s, swap(a, idx, d.value), idx - 1)

rng_shuffle(s, a, nn) == shuffle_loop(s, a, nn - 1)

(***************************************************************************)
(* State of the sort engine: one call of shellsort or shellsort_stats at a *)
(* time, each on its own copy of input; ret keeps what each call returned. *)
(***************************************************************************)
VARIABLES
    input,        \* the caller's array before the call
    seq,          \* the gap_sequence_t passed to the engine
    fn,           \* the function being executed
    pc,           \* position in the function
    arr,          \* the array being sorted in place
    g, gap, i, j, temp,   \* locals of shellsort / shellsort_stats
    comparisons,  \* comparisons / stats.comparisons
    moves,        \* stats.moves (shellsort_stats only)
    trace,        \* history: the array after each write of the current call
    returned,     \* the functions that have returned
    ret           \* per function: returned counts, final array, write history

(***************************************************************************)
(* State of a call of gap_sequence_valid(seq, reason, reason_len).         *)
(***************************************************************************)
VARIABLES
    hasReason,    \* reason != NULL
    reason,       \* the caller's reason buffer
    valid         \* the value returned, -1 before the call returns

(***************************************************************************)
(* State of a call of a generator, which fills seq.                        *)
(***************************************************************************)
VARIABLES
    max_gap,      \* the max_gap argument
    generator,    \* the generator that filled seq, "none" before the call
    genArgs       \* its other arguments (ratios in quarters, threshold)

genVars == <<max_gap, generator, genArgs>>

(***************************************************************************)
(* State of a run of one driver's main: bench.c, validate.c,               *)
(* all_baselines_bench.c or full_bench.c.                                  *)
(***************************************************************************)
VARIABLES
    driver,       \* the program that runs
    dpc,          \* position in its main
    sizes,        \* cfg.sizes / sizes[]
    si,           \* index of the size being processed
    ds,           \* the loaded dataset's header: N and trials
    seqs,         \* the sequences generated for the current size
    seqIdx,       \* index i of the sequence being processed
    out,          \* history: what was printed (skips, result rows, failures)
    loads,        \* history: per size index, whether load_dataset succeeded
    benchmarked,  \* history: the (size, sequence) pairs handed to the
                  \* driver's benchmark function
    engineCalls,  \* history: function and sequence of every engine call
    validated     \* history: sequences gap_sequence_valid returned 1 for

drvVars == <<driver, dpc, sizes, si, ds, seqs, seqIdx, out, loads, benchmarked,
             engineCalls, validated>>

sortVars == <<input, fn, pc, arr, g, gap, i, j, temp, comparisons, moves,
              trace, returned, ret>>

validVars == <<hasReason, reason, valid>>

(***************************************************************************)
(* State of permgen: generate_permutations for one size, run twice with    *)
(* the same master seed and size.                                          *)
(***************************************************************************)
VARIABLES
    cfg,          \* master_seed, N = sizes[size_idx], trials = trials[size_idx]
    run,          \* 1 for the first run, 2 for the second; 0: not started
    gpc,          \* position in generate_permutations
    gt,           \* the trial index t
    garr,         \* arr, the buffer of one permutation
    grng,         \* rng, the generator state s[0..3]
    gi,           \* the index i of rng_shuffle
    bin_file,     \* what the current run has written to perm_<N>.bin
    gret,         \* the value returned, 1 before the return
    files         \* history: the .bin file and return value of finished runs

permVars == <<cfg, run, gpc, gt, garr, grng, gi, bin_file, gret, files>>

(***************************************************************************)
(* State of one call of rng_uniform (rng.h), on words of WordBits bits.    *)
(***************************************************************************)
VARIABLES
    un,           \* the argument n
    uthreshold,   \* threshold = -n % n
    uraw,         \* r, the last word drawn with rng_next, bits LSB first
    udraws,       \* how many words the call has drawn
    upc,          \* position in rng_uniform
    uret          \* the value returned, -1 before the return

uniVars == <<un, uthreshold, uraw, udraws, upc, uret>>

(***************************************************************************)
(* State of one call of load_dataset (bench.c, validate.c, full_bench.c,   *)
(* all_baselines_bench.c).                                                 *)
(***************************************************************************)
VARIABLES
    loader,       \* the program whose load_dataset runs
    lreq,         \* the argument N
    lfile,        \* perm_<N>.bin as found on disk
    lpc,          \* position in load_dataset
    lmagic,       \* the local magic
    lds,          \* ds->N and ds->trials
    ldata,        \* ds->data, <<>> when there is no buffer
    lread,        \* how many elements the data fread delivered
    lret          \* the value returned, 1 before the return

loadVars == <<loader, lreq, lfile, lpc, lmagic, lds, ldata, lread, lret>>

(***************************************************************************)
(* State of one benchmark of a dataset with a sequence: the parallel trial *)
(* loop of benchmark_sequence (bench.c, full_bench.c) and evaluate         *)
(* (validate.c) and the row main reports from it.                          *)
(***************************************************************************)
VARIABLES
    tprog,        \* the program that runs
    tthreads,     \* how many threads run the loop
    ttrials,      \* ds->trials
    tcounts,      \* what the sort of each row returns as comparisons
    tpc,          \* position of the main thread
    tarrays,      \* the per-trial arrays: "none", "allocated" or "null"
    tslots,       \* comp_counts[] / stats.comparisons[]
    tacc,         \* each thread's private copy of the reduction variable
    wpc,          \* each thread's position in the loop body
    wt,           \* each thread's trial index t
    tscratch,     \* arr of each trial: "none", "allocated", "copied", ...
    tdone,        \* the trials whose counts a completed sort has delivered
    twrites,      \* the writes to heap objects and reduction copies so far
    tresult,      \* the result handed to main
    treport       \* the rows main has printed

trialVars ==
    <<tprog, tthreads, ttrials, tcounts, tpc, tarrays, tslots, tacc, wpc, wt,
      tscratch, tdone, twrites, tresult, treport>>

(***************************************************************************)
(* State of a driver's main as far as the numbers it reports go: the size  *)
(* loop, the stored means, the running totals and the lines printed.       *)
(***************************************************************************)
VARIABLES
    rprog,        \* the program that runs
    rpc,          \* position in main
    rsi,          \* the size index of the loop
    rfailed,      \* the size indices whose load_dataset failed
    rresults,     \* all_baselines_bench.c: results[7][4]
    rtotals,      \* validate.c, full_bench.c: the two running totals
    rout          \* the numbers printed, each with the sizes it was read from

reportVars == <<rprog, rpc, rsi, rfailed, rresults, rtotals, rout>>

(***************************************************************************)
(* State of the statistics: benchmark_sequence's aggregation (bench.c),    *)
(* compute_stats and paired_test (full_bench.c) on per-trial counts.       *)
(***************************************************************************)
VARIABLES
    sa,           \* comp_counts[] / a->comparisons[]
    sb,           \* b->comparisons[] of paired_test
    sbench,       \* bench.c: result->mean_comparisons, stddev, stderr_val
    sfull,        \* full_bench.c: stats->mean_comps, stddev_comps, stderr_comps
    spaired       \* paired_test: *mean_diff, *t_stat, *p_approx

statVars == <<sa, sb, sbench, sfull, spaired>>

VARIABLES
    shn,          \* the argument n of rng_shuffle
    sharr,        \* the array being shuffled
    shi,          \* the loop index i (-1 stands for the wrapped 2^64 - 1)
    shcalls,      \* the calls of rng_uniform made, with their results
    shtouched,    \* the indices of arr read or written
    shpc          \* position in rng_shuffle

shufVars == <<shn, sharr, shi, shcalls, shtouched, shpc>>

\* the variables of the later parts of the model
restVars == <<permVars, uniVars, loadVars, trialVars, reportVars, statVars, shufVars>>

vars == <<seq, sortVars, validVars, genVars, drvVars, restVars>>

Fns == {"shellsort", "shellsort_stats"}

\* the argument n of the call
n == Len(input)

(***************************************************************************)
(* Inputs of the sort engine.                                              *)
(***************************************************************************)
Arrangements(len) == {p \in [1..len -> 1..len] : \A a, b \in 1..len : p[a] = p[b] => a = b}

\* arrays with repeated values, every arrangement of distinct values, and
\* the reverse-sorted arrays
InputArrays ==
    SeqsOf(Vals, 0, MaxLen)
        \cup UNION {Arrangements(len) : len \in 0..MaxLen}
        \cup {Descending(len) : len \in 0..MaxDesc}

\* every sequence satisfying the invariants with gaps in 1..MaxGap
ValidGapLists == {gs \in SeqsOf(1..MaxGap, 1, MaxGap) : SeqInvariants(gs)}

\* sequences of at most two gaps over 0..MaxBad breaking an invariant (zero
\* gap, first gap not 1, duplicates, decreasing gaps, no gap at all)
BadGapLists == {gs \in SeqsOf(0..MaxBad, 0, 2) : ~SeqInvariants(gs)}

SortSeqs == {GapSeq("seq", gs) : gs \in ValidGapLists \cup BadGapLists}

NoRet == [comparisons |-> 0, moves |-> 0, arr |-> <<>>, trace |-> <<>>]

\* no call of the sort engine in progress or made
SortIdle ==
    /\ fn = "none"
    /\ pc = "idle"
    /\ arr = <<>>
    /\ g = 0 /\ gap = 0 /\ i = 0 /\ j = 0 /\ temp = 0
    /\ comparisons = 0
    /\ moves = 0
    /\ trace = <<>>
    /\ returned = {}
    /\ ret = [f \in Fns |-> NoRet]

\* gap_sequence_valid not called
ValidIdle ==
    /\ hasReason = FALSE
    /\ reason = Unwritten
    /\ valid = -1

\* no generator called
GenIdle ==
    /\ max_gap = 0
    /\ generator = "none"
    /\ genArgs = <<>>

NoDataset == [N |-> 0, trials |-> 0]

NoCfg == [master_seed |-> U64(0), N |-> 0, trials |-> 0]

\* permgen not running
PermIdle ==
    /\ cfg = NoCfg
    /\ run = 0
    /\ gpc = "idle"
    /\ gt = 0
    /\ garr = <<>>
    /\ grng = <<>>
    /\ gi = 0
    /\ bin_file = <<>>
    /\ gret = 1
    /\ files = <<>>

\* rng_uniform not called on its own
UniIdle ==
    /\ un = 0
    /\ uthreshold = 0
    /\ uraw = <<>>
    /\ udraws = 0
    /\ upc = "idle"
    /\ uret = -1

\* no file
NoBinFile ==
    [present |-> FALSE, fields |-> 0, magic |-> U64(0), N |-> 0, trials |-> 0,
     data |-> <<>>]

\* load_dataset not called on its own
LoadIdle ==
    /\ loader = "none"
    /\ lreq = 0
    /\ lfile = NoBinFile
    /\ lpc = "idle"
    /\ lmagic = U64(0)
    /\ lds = NoDataset
    /\ ldata = <<>>
    /\ lread = 0
    /\ lret = 1

\* no trial loop running
TrialIdle ==
    /\ tprog = "none"
    /\ tthreads = 0
    /\ ttrials = 0
    /\ tcounts = <<>>
    /\ tpc = "idle"
    /\ tarrays = "none"
    /\ tslots = <<>>
    /\ tacc = <<>>
    /\ wpc = <<>>
    /\ wt = <<>>
    /\ tscratch = <<>>
    /\ tdone = {}
    /\ twrites = {}
    /\ tresult = <<>>
    /\ treport = <<>>

\* no report running
ReportIdle ==
    /\ rprog = "none"
    /\ rpc = "idle"
    /\ rsi = 0
    /\ rfailed = {}
    /\ rresults = <<>>
    /\ rtotals = <<>>
    /\ rout = <<>>

\* no statistics computed
StatIdle ==
    /\ sa = <<>>
    /\ sb = <<>>
    /\ sbench = <<>>
    /\ sfull = <<>>
    /\ spaired = <<>>

\* rng_shuffle not called on its own
ShufIdle ==
    /\ shn = 0
    /\ sharr = <<>>
    /\ shi = 0
    /\ shcalls = <<>>
    /\ shtouched = {}
    /\ shpc = "idle"

\* the later parts of the model at rest, but for the part named
RestIdleExcept(part) ==
    /\ IF part = "permgen" THEN TRUE ELSE PermIdle
    /\ IF part = "rng_uniform" THEN TRUE ELSE UniIdle
    /\ IF part = "load_dataset" THEN TRUE ELSE LoadIdle
    /\ IF part = "trial_loop" THEN TRUE ELSE TrialIdle
    /\ IF part = "report" THEN TRUE ELSE ReportIdle
    /\ IF part = "statistics" THEN TRUE ELSE StatIdle
    /\ IF part = "rng_shuffle" THEN TRUE ELSE ShufIdle

RestIdle == RestIdleExcept("none")

\* the later parts of the model left alone, but for the part named
RestFrameExcept(part) ==
    /\ IF part = "permgen" THEN TRUE ELSE UNCHANGED permVars
    /\ IF part = "rng_uniform" THEN TRUE ELSE UNCHANGED uniVars
    /\ IF part = "load_dataset" THEN TRUE ELSE UNCHANGED loadVars
    /\ IF part = "trial_loop" THEN TRUE ELSE UNCHANGED trialVars
    /\ IF part = "report" THEN TRUE ELSE UNCHANGED reportVars
    /\ IF part = "statistics" THEN TRUE ELSE UNCHANGED statVars
    /\ IF part = "rng_shuffle" THEN TRUE ELSE UNCHANGED shufVars

\* no driver running
DrvIdle ==
    /\ driver = "none"
    /\ dpc = "done"
    /\ sizes = <<>>
    /\ si = 0
    /\ ds = NoDataset
    /\ seqs = <<>>
    /\ seqIdx = 0
    /\ out = <<>>
    /\ loads = <<>>
    /\ benchmarked = <<>>
    /\ engineCalls = {}
    /\ validated = {}

SortInit ==
    /\ input \in InputArrays
    /\ seq \in SortSeqs
    /\ ValidIdle
    /\ GenIdle
    /\ DrvIdle
    /\ RestIdle
    /\ fn = "none"
    /\ pc = "idle"
    /\ arr = <<>>
    /\ g = 0 /\ gap = 0 /\ i = 0 /\ j = 0 /\ temp = 0
    /\ comparisons = 0
    /\ moves = 0
    /\ trace = <<>>
    /\ returned = {}
    /\ ret = [f \in Fns |-> NoRet]

\* the sort engine touches nothing but its array, its locals and its result
SortFrame == UNCHANGED <<validVars, genVars, drvVars, restVars>>

(***************************************************************************)
(* shellsort (shellsort.c:9-43).  It has no move counter: moves stays 0.   *)
(***************************************************************************)
\* uint64_t comparisons = 0; for (size_t g = seq->num_gaps; ...
shellsort_call ==
    /\ pc = "idle"
    /\ "shellsort" \notin returned
    /\ fn' = "shellsort"
    /\ arr' = input
    /\ comparisons' = 0
    /\ g' = seq.num_gaps
    /\ trace' = <<>>
    /\ pc' = "outer"
    /\ UNCHANGED <<input, seq, gap, i, j, temp, moves, returned, ret>>
    /\ SortFrame

\* mutant: the skip of a gap >= n does not step the index (a continue that
\* misses the g--)
shellsort_skip_gap_stuck ==
    /\ fn = "shellsort" /\ pc = "outer"
    /\ g > 0
    /\ At(seq.gaps, g - 1) >= n
    /\ gap' = At(seq.gaps, g - 1)
    /\ UNCHANGED <<input, seq, fn, pc, arr, g, i, j, temp, comparisons, moves,
                   trace, returned, ret>>
    /\ SortFrame

\* for (...; g > 0; g--) { gap = gaps[g-1]; if (gap >= n) continue;
shellsort_skip_gap ==
    /\ fn = "shellsort" /\ pc = "outer"
    /\ g > 0
    /\ At(seq.gaps, g - 1) >= n
    /\ gap' = At(seq.gaps, g - 1)
    /\ g' = g - 1
    /\ UNCHANGED <<input, seq, fn, pc, arr, i, j, temp, comparisons, moves,
                   trace, returned, ret>>
    /\ SortFrame

\* mutant: the pass starts one element late, for (i = gap + 1; ...
shellsort_start_pass_late ==
    /\ fn = "shellsort" /\ pc = "outer"
    /\ g > 0
    /\ ~(At(seq.gaps, g - 1) >= n)
    /\ gap' = At(seq.gaps, g - 1)
    /\ i' = At(seq.gaps, g - 1) + 1
    /\ pc' = "for"
    /\ UNCHANGED <<input, seq, fn, arr, g, j, temp, comparisons, moves, trace,
                   returned, ret>>
    /\ SortFrame

\* ... gap = gaps[g-1]; (gap < n) for (size_t i = gap; ...
shellsort_start_pass ==
    /\ fn = "shellsort" /\ pc = "outer"
    /\ g > 0
    /\ ~(At(seq.gaps, g - 1) >= n)
    /\ gap' = At(seq.gaps, g - 1)
    /\ i' = At(seq.gaps, g - 1)
    /\ pc' = "for"
    /\ UNCHANGED <<input, seq, fn, arr, g, j, temp, comparisons, moves, trace,
                   returned, ret>>
    /\ SortFrame

\* for (...; i < n; ...) { int32_t temp = arr[i]; size_t j = i;
shellsort_take ==
    /\ fn = "shellsort" /\ pc = "for"
    /\ i < n
    /\ temp' = At(arr, i)
    /\ j' = i
    /\ pc' = "while"
    /\ UNCHANGED <<input, seq, fn, arr, g, gap, i, comparisons, moves, trace,
                   returned, ret>>
    /\ SortFrame

\* i < n fails: the pass is over, g--
shellsort_end_pass ==
    /\ fn = "shellsort" /\ pc = "for"
    /\ ~(i < n)
    /\ g' = g - 1
    /\ pc' = "outer"
    /\ UNCHANGED <<input, seq, fn, arr, gap, i, j, temp, comparisons, moves,
                   trace, returned, ret>>
    /\ SortFrame

\* while (j >= gap) { comparisons++; if (arr[j - gap] > temp) {
\*     arr[j] = arr[j - gap]; j -= gap; }
shellsort_shift ==
    /\ fn = "shellsort" /\ pc = "while"
    /\ j >= gap
    /\ comparisons' = comparisons + 1
    /\ At(arr, j - gap) > temp
    /\ arr' = Put(arr, j, At(arr, j - gap))
    /\ trace' = Append(trace, arr')
    /\ j' = j - gap
    /\ UNCHANGED <<input, seq, fn, pc, g, gap, i, temp, moves, returned, ret>>
    /\ SortFrame

\* mutant: only the comparisons that lead to a shift are counted
shellsort_compare_stop_uncounted ==
    /\ fn = "shellsort" /\ pc = "while"
    /\ j >= gap
    /\ ~(At(arr, j - gap) > temp)
    /\ pc' = "place"
    /\ UNCHANGED <<input, seq, fn, arr, g, gap, i, j, temp, comparisons, moves,
                   trace, returned, ret>>
    /\ SortFrame

\* while (j >= gap) { comparisons++; if (arr[j - gap] > temp) ... else break; }
shellsort_compare_stop ==
    /\ fn = "shellsort" /\ pc = "while"
    /\ j >= gap
    /\ comparisons' = comparisons + 1
    /\ ~(At(arr, j - gap) > temp)
    /\ pc' = "place"
    /\ UNCHANGED <<input, seq, fn, arr, g, gap, i, j, temp, moves, trace,
                   returned, ret>>
    /\ SortFrame

\* mutant: the bound check is counted as a comparison
shellsort_bound_stop_counted ==
    /\ fn = "shellsort" /\ pc = "while"
    /\ ~(j >= gap)
    /\ comparisons' = comparisons + 1
    /\ pc' = "place"
    /\ UNCHANGED <<input, seq, fn, arr, g, gap, i, j, temp, moves, trace,
                   returned, ret>>
    /\ SortFrame

\* j >= gap fails: the loop ends on its bound check, nothing is counted
shellsort_bound_stop ==
    /\ fn = "shellsort" /\ pc = "while"
    /\ ~(j >= gap)
    /\ pc' = "place"
    /\ UNCHANGED <<input, seq, fn, arr, g, gap, i, j, temp, comparisons, moves,
                   trace, returned, ret>>
    /\ SortFrame

\* arr[j] = temp;  and the i++ of the for loop
shellsort_place ==
    /\ fn = "shellsort" /\ pc = "place"
    /\ arr' = Put(arr, j, temp)
    /\ trace' = Append(trace, arr')
    /\ i' = i + 1
    /\ pc' = "for"
    /\ UNCHANGED <<input, seq, fn, g, gap, j, temp, comparisons, moves,
                   returned, ret>>
    /\ SortFrame

\* g > 0 fails: return comparisons;  (the locals die with the call)
shellsort_return ==
    /\ fn = "shellsort" /\ pc = "outer"
    /\ ~(g > 0)
    /\ ret' = [ret EXCEPT !["shellsort"] =
                  [comparisons |-> comparisons, moves |-> 0,
                   arr |-> arr, trace |-> trace]]
    /\ returned' = returned \cup {"shellsort"}
    /\ pc' = "idle"
    /\ fn' = "none"
    /\ arr' = <<>>
    /\ g' = 0 /\ gap' = 0 /\ i' = 0 /\ j' = 0 /\ temp' = 0
    /\ comparisons' = 0
    /\ trace' = <<>>
    /\ UNCHANGED <<input, seq, moves>>
    /\ SortFrame

(***************************************************************************)
(* shellsort_stats (shellsort.c:45-76).                                    *)
(***************************************************************************)
\* sort_stats_t stats = {0, 0}; for (size_t g = seq->num_gaps; ...
shellsort_stats_call ==
    /\ pc = "idle"
    /\ "shellsort_stats" \notin returned
    /\ fn' = "shellsort_stats"
    /\ arr' = input
    /\ comparisons' = 0
    /\ moves' = 0
    /\ g' = seq.num_gaps
    /\ trace' = <<>>
    /\ pc' = "outer"
    /\ UNCHANGED <<input, seq, gap, i, j, temp, returned, ret>>
    /\ SortFrame

\* mutant: a gap >= n is skipped after one comparison has been counted
shellsort_stats_skip_gap_counted ==
    /\ fn = "shellsort_stats" /\ pc = "outer"
    /\ g > 0
    /\ At(seq.gaps, g - 1) >= n
    /\ gap' = At(seq.gaps, g - 1)
    /\ g' = g - 1
    /\ comparisons' = comparisons + 1
    /\ UNCHANGED <<input, seq, fn, pc, arr, i, j, temp, moves, trace,
                   returned, ret>>
    /\ SortFrame

\* for (...; g > 0; g--) { gap = gaps[g-1]; if (gap >= n) continue;
shellsort_stats_skip_gap ==
    /\ fn = "shellsort_stats" /\ pc = "outer"
    /\ g > 0
    /\ At(seq.gaps, g - 1) >= n
    /\ gap' = At(seq.gaps, g - 1)
    /\ g' = g - 1
    /\ UNCHANGED <<input, seq, fn, pc, arr, i, j, temp, comparisons, moves,
                   trace, returned, ret>>
    /\ SortFrame

\* ... gap = gaps[g-1]; (gap < n) for (size_t i = gap; ...
shellsort_stats_start_pass ==
    /\ fn = "shellsort_stats" /\ pc = "outer"
    /\ g > 0
    /\ ~(At(seq.gaps, g - 1) >= n)
    /\ gap' = At(seq.gaps, g - 1)
    /\ i' = At(seq.gaps, g - 1)
    /\ pc' = "for"
    /\ UNCHANGED <<input, seq, fn, arr, g, j, temp, comparisons, moves, trace,
                   returned, ret>>
    /\ SortFrame

\* for (...; i < n; ...) { int32_t temp = arr[i]; size_t j = i;
shellsort_stats_take ==
    /\ fn = "shellsort_stats" /\ pc = "for"
    /\ i < n
    /\ temp' = At(arr, i)
    /\ j' = i
    /\ pc' = "while"
    /\ UNCHANGED <<input, seq, fn, arr, g, gap, i, comparisons, moves, trace,
                   returned, ret>>
    /\ SortFrame

\* mutant: the pass may stop one element early, for (...; i < n - 1; ...
shellsort_stats_end_pass_early ==
    /\ fn = "shellsort_stats" /\ pc = "for"
    /\ ~(i < n - 1)
    /\ g' = g - 1
    /\ pc' = "outer"
    /\ UNCHANGED <<input, seq, fn, arr, gap, i, j, temp, comparisons, moves,
                   trace, returned, ret>>
    /\ SortFrame

\* i < n fails: the pass is over, g--
shellsort_stats_end_pass ==
    /\ fn = "shellsort_stats" /\ pc = "for"
    /\ ~(i < n)
    /\ g' = g - 1
    /\ pc' = "outer"
    /\ UNCHANGED <<input, seq, fn, arr, gap, i, j, temp, comparisons, moves,
                   trace, returned, ret>>
    /\ SortFrame

\* mutant: only the final placements are counted as moves, not the shifts
shellsort_stats_shift_uncounted ==
    /\ fn = "shellsort_stats" /\ pc = "while"
    /\ j >= gap
    /\ comparisons' = comparisons + 1
    /\ At(arr, j - gap) > temp
    /\ arr' = Put(arr, j, At(arr, j - gap))
    /\ trace' = Append(trace, arr')
    /\ j' = j - gap
    /\ UNCHANGED <<input, seq, fn, pc, g, gap, i, temp, moves, returned, ret>>
    /\ SortFrame

\* while (j >= gap) { stats.comparisons++; if (arr[j - gap] > temp) {
\*     arr[j] = arr[j - gap]; stats.moves++; j -= gap; }
shellsort_stats_shift ==
    /\ fn = "shellsort_stats" /\ pc = "while"
    /\ j >= gap
    /\ comparisons' = comparisons + 1
    /\ At(arr, j - gap) > temp
    /\ arr' = Put(arr, j, At(arr, j - gap))
    /\ moves' = moves + 1
    /\ trace' = Append(trace, arr')
    /\ j' = j - gap
    /\ UNCHANGED <<input, seq, fn, pc, g, gap, i, temp, returned, ret>>
    /\ SortFrame

\* mutant: the statistics variant stops only on a strictly smaller element
\* (arr[j - gap] >= temp shifts), unlike shellsort
shellsort_stats_compare_stop_strict ==
    /\ fn = "shellsort_stats" /\ pc = "while"
    /\ j >= gap
    /\ comparisons' = comparisons + 1
    /\ IF At(arr, j - gap) = temp
       THEN /\ arr' = Put(arr, j, At(arr, j - gap))
            /\ moves' = moves + 1
            /\ trace' = Append(trace, arr')
            /\ j' = j - gap
            /\ pc' = pc
       ELSE /\ ~(At(arr, j - gap) > temp)
            /\ pc' = "place"
            /\ UNCHANGED <<arr, moves, trace, j>>
    /\ UNCHANGED <<input, seq, fn, g, gap, i, temp, returned, ret>>
    /\ SortFrame

\* while (j >= gap) { stats.comparisons++; if (...) ... else break; }
shellsort_stats_compare_stop ==
    /\ fn = "shellsort_stats" /\ pc = "while"
    /\ j >= gap
    /\ comparisons' = comparisons + 1
    /\ ~(At(arr, j - gap) > temp)
    /\ pc' = "place"
    /\ UNCHANGED <<input, seq, fn, arr, g, gap, i, j, temp, moves, trace,
                   returned, ret>>
    /\ SortFrame

\* j >= gap fails: the loop ends on its bound check, nothing is counted
shellsort_stats_bound_stop ==
    /\ fn = "shellsort_stats" /\ pc = "while"
    /\ ~(j >= gap)
    /\ pc' = "place"
    /\ UNCHANGED <<input, seq, fn, arr, g, gap, i, j, temp, comparisons, moves,
                   trace, returned, ret>>
    /\ SortFrame

\* mutant: the final placement is not counted as a move
shellsort_stats_place_uncounted ==
    /\ fn = "shellsort_stats" /\ pc = "place"
    /\ arr' = Put(arr, j, temp)
    /\ trace' = Append(trace, arr')
    /\ i' = i + 1
    /\ pc' = "for"
    /\ UNCHANGED <<input, seq, fn, g, gap, j, temp, comparisons, moves,
                   returned, ret>>
    /\ SortFrame

\* arr[j] = temp; stats.moves++;  and the i++ of the for loop
shellsort_stats_place ==
    /\ fn = "shellsort_stats" /\ pc = "place"
    /\ arr' = Put(arr, j, temp)
    /\ moves' = moves + 1
    /\ trace' = Append(trace, arr')
    /\ i' = i + 1
    /\ pc' = "for"
    /\ UNCHANGED <<input, seq, fn, g, gap, j, temp, comparisons, returned, ret>>
    /\ SortFrame

\* g > 0 fails: return stats;  (the locals die with the call)
shellsort_stats_return ==
    /\ fn = "shellsort_stats" /\ pc = "outer"
    /\ ~(g > 0)
    /\ ret' = [ret EXCEPT !["shellsort_stats"] =
                  [comparisons |-> comparisons, moves |-> moves,
                   arr |-> arr, trace |-> trace]]
    /\ returned' = returned \cup {"shellsort_stats"}
    /\ pc' = "idle"
    /\ fn' = "none"
    /\ arr' = <<>>
    /\ g' = 0 /\ gap' = 0 /\ i' = 0 /\ j' = 0 /\ temp' = 0
    /\ comparisons' = 0
    /\ moves' = 0
    /\ trace' = <<>>
    /\ UNCHANGED <<input, seq>>
    /\ SortFrame

SortNext ==
    \/ shellsort_call
    \/ shellsort_skip_gap
    \/ shellsort_start_pass
    \/ shellsort_take
    \/ shellsort_end_pass
    \/ shellsort_shift
    \/ shellsort_compare_stop
    \/ shellsort_bound_stop
    \/ shellsort_place
    \/ shellsort_return
    \/ shellsort_stats_call
    \/ shellsort_stats_skip_gap
    \/ shellsort_stats_start_pass
    \/ shellsort_stats_take
    \/ shellsort_stats_end_pass
    \/ shellsort_stats_shift
    \/ shellsort_stats_compare_stop
    \/ shellsort_stats_bound_stop
    \/ shellsort_stats_place
    \/ shellsort_stats_return

SpecSort == SortInit /\ [][SortNext]_vars

\* the arrays of the termination check: every arrangement of distinct
\* values, the reverse-sorted arrays and the arrays of equal values
LiveArrays ==
    UNION {Arrangements(len) : len \in 0..MaxLen}
        \cup {Descending(len) : len \in 0..MaxDesc}
        \cup {[k \in 1..len |-> 0] : len \in 0..MaxLen}

SortLiveInit == SortInit /\ input \in LiveArrays

\* a call is straight-line sequential code: it keeps taking its next step
SpecSortLive == SortLiveInit /\ [][SortNext]_vars /\ WF_vars(SortNext)

(***************************************************************************)
(* A call of the validator on an arbitrary gap sequence.                   *)
(***************************************************************************)
\* sequences of 0..MaxGap gaps over 0..MaxGap, and the hand-built [1,4,10,23]
ValidatorSeqs ==
    {GapSeq("seq", gs) : gs \in SeqsOf(0..MaxGap, 0, MaxGap) \cup {<<1, 4, 10, 23>>}}

ValidInit ==
    /\ seq \in ValidatorSeqs
    /\ hasReason \in BOOLEAN
    /\ reason = Unwritten
    /\ valid = -1
    /\ input = <<>>
    /\ SortIdle
    /\ GenIdle
    /\ DrvIdle
    /\ RestIdle

\* int gap_sequence_valid(const gap_sequence_t *seq, char *reason, size_t reason_len)
gap_sequence_valid_call ==
    /\ valid = -1
    /\ LET r == gap_sequence_valid(seq, hasReason)
       IN /\ valid' = r.ret
          /\ reason' = IF r.reason = Unwritten THEN reason ELSE r.reason
    /\ UNCHANGED <<seq, hasReason, sortVars, genVars, drvVars, restVars>>

ValidNext == gap_sequence_valid_call

SpecValid == ValidInit /\ [][ValidNext]_vars

(***************************************************************************)
(* A call of one generator with an arbitrary max_gap.                      *)
(***************************************************************************)
\* the max_gap values the literals and the drivers make interesting: the
\* spec's 1, 10, 701 and 10,000,000, values around the literals, values
\* between a literal's 2.25-fold and the next literal, the drivers' sizes
SpecialMaxGaps ==
    {57, 132, 301, 700, 701, 702, 1576, 1577, 1749, 1750, 3524, 17336, 17960,
     1000000, 2000000, 3000000, 4000000, 8000000, 10000000}

MaxGaps == 0..MaxSmall \cup SpecialMaxGaps

\* what an out-of-bounds read of gaps[-1] may find
Stray == {0, 1, 255}

\* ratios, in quarters: 0.5, 1.0, 1.25, 2.25, 3.0
Ratios == {2, 4, 5, 9, 12}

Thresholds == {0, 10, 100}

GenInit ==
    /\ max_gap \in MaxGaps
    /\ generator = "none"
    /\ genArgs = <<>>
    /\ seq = GapSeq("", <<>>)
    /\ input = <<>>
    /\ SortIdle
    /\ ValidIdle
    /\ DrvIdle
    /\ RestIdle

\* the part of the state a generator call leaves alone
GenFrame == UNCHANGED <<max_gap, input, sortVars, validVars, drvVars, restVars>>

call_gaps_ciura ==
    /\ generator = "none"
    /\ \E stray \in Stray : seq' = gaps_ciura(max_gap, stray)
    /\ generator' = "gaps_ciura"
    /\ genArgs' = <<>>
    /\ GenFrame

call_gaps_ciura_extended ==
    /\ generator = "none"
    /\ \E stray \in Stray : seq' = gaps_ciura_extended(max_gap, stray)
    /\ generator' = "gaps_ciura_extended"
    /\ genArgs' = <<>>
    /\ GenFrame

call_gaps_tokuda ==
    /\ generator = "none"
    /\ seq' = gaps_tokuda(max_gap)
    /\ generator' = "gaps_tokuda"
    /\ genArgs' = <<>>
    /\ GenFrame

call_gaps_lee ==
    /\ generator = "none"
    /\ seq' = gaps_lee(max_gap)
    /\ generator' = "gaps_lee"
    /\ genArgs' = <<>>
    /\ GenFrame

call_gaps_skean ==
    /\ generator = "none"
    /\ seq' = gaps_skean(max_gap)
    /\ generator' = "gaps_skean"
    /\ genArgs' = <<>>
    /\ GenFrame

call_gaps_sedgewick86 ==
    /\ generator = "none"
    /\ seq' = gaps_sedgewick86(max_gap)
    /\ generator' = "gaps_sedgewick86"
    /\ genArgs' = <<>>
    /\ GenFrame

call_gaps_ratio ==
    /\ generator = "none"
    /\ \E ratio \in Ratios :
           /\ seq' = gaps_ratio(ratio, max_gap)
           /\ genArgs' = <<ratio>>
    /\ generator' = "gaps_ratio"
    /\ GenFrame

call_gaps_split_ratio ==
    /\ generator = "none"
    /\ \E r1 \in Ratios, r2 \in Ratios, threshold \in Thresholds :
           /\ seq' = gaps_split_ratio(r1, r2, threshold, max_gap)
           /\ genArgs' = <<r1, r2, threshold>>
    /\ generator' = "gaps_split_ratio"
    /\ GenFrame

call_gaps_evolved ==
    /\ generator = "none"
    /\ \E stray \in Stray : seq' = gaps_evolved(max_gap, stray)
    /\ generator' = "gaps_evolved"
    /\ genArgs' = <<>>
    /\ GenFrame

GenNext ==
    \/ call_gaps_ciura
    \/ call_gaps_ciura_extended
    \/ call_gaps_tokuda
    \/ call_gaps_lee
    \/ call_gaps_skean
    \/ call_gaps_sedgewick86
    \/ call_gaps_ratio
    \/ call_gaps_split_ratio
    \/ call_gaps_evolved

SpecGen == GenInit /\ [][GenNext]_vars

(***************************************************************************)
(* The drivers.  Each main loops over its sizes: load the dataset, build   *)
(* the sequences for that size, hand each to its benchmark function, print.*)
(* The dataset's contents and the measured numbers are left out here: the  *)
(* state keeps which sequences were validated, which were handed to the    *)
(* benchmark function, which reached the engine, and what was printed.     *)
(***************************************************************************)
NUM_BASELINES == 6

Drivers == {"bench", "validate", "all_baselines_bench", "full_bench"}

\* bench.c takes its sizes from the command line (--sizes n1,n2,...)
BenchSizes == {0, 1000}

\* sizes[] of validate.c, all_baselines_bench.c and full_bench.c
FixedSizes == <<1000000, 2000000, 4000000, 8000000>>

\* the trial count a dataset file may carry
Trials == 0..MaxTrials

gaps_all_baselines(maxgap, stray1, stray2) ==
    << gaps_ciura(maxgap, stray1), gaps_ciura_extended(maxgap, stray2),
       gaps_tokuda(maxgap), gaps_lee(maxgap), gaps_skean(maxgap),
       gaps_sedgewick86(maxgap) >>

gap_sequence_copy(src) == src

\* full_bench.c: while (num_gaps > 0 && gaps[num_gaps-1] >= N) num_gaps--
RECURSIVE trim(_, _)
trim(s, N) ==
    IF s.num_gaps > 0 /\ At(s.gaps, s.num_gaps - 1) >= N
    THEN trim(GapSeq(s.name, SubSeq(s.gaps, 1, s.num_gaps - 1)), N)
    ELSE s

\* a line of output about sequence i of size index s
Line(kind, s, idx, sq, why) ==
    [kind |-> kind, si |-> s, i |-> idx, seq |-> sq, reason |-> why]

NoSeq == GapSeq("", <<>>)

\* the engine calls of one benchmark run: the trial loop calls f once per
\* trial whose scratch array was allocated
EngineCalls(f, sq, trials, scratch) ==
    IF trials > 0 /\ scratch THEN {[fn |-> f, seq |-> sq]} ELSE {}

DrvInit ==
    /\ driver \in Drivers
    /\ sizes \in IF driver = "bench" THEN SeqsOf(BenchSizes, 1, MaxSizes)
                 ELSE {FixedSizes}
    /\ dpc = IF driver = "full_bench" THEN "start" ELSE "size_loop"
    /\ si = 0
    /\ ds = NoDataset
    /\ seqs = <<>>
    /\ seqIdx = 0
    /\ out = <<>>
    /\ loads = <<>>
    /\ benchmarked = <<>>
    /\ engineCalls = {}
    /\ validated = {}
    /\ seq = NoSeq
    /\ input = <<>>
    /\ SortIdle
    /\ ValidIdle
    /\ GenIdle
    /\ RestIdle

DrvFrame ==
    UNCHANGED <<driver, sizes, seq, input, sortVars, validVars, genVars, restVars>>

(* bench.c main *)
\* load_dataset(...) < 0: continue with the next size
bench_load_failed ==
    /\ driver = "bench" /\ dpc = "size_loop" /\ si < Len(sizes)
    /\ loads' = Append(loads, [si |-> si, ok |-> FALSE])
    /\ si' = si + 1
    /\ UNCHANGED <<dpc, ds, seqs, seqIdx, out, benchmarked, engineCalls, validated>>
    /\ DrvFrame

\* the dataset loads; gaps_all_baselines(seqs, N)
bench_load_ok ==
    /\ driver = "bench" /\ dpc = "size_loop" /\ si < Len(sizes)
    /\ \E trials \in Trials : ds' = [N |-> At(sizes, si), trials |-> trials]
    /\ \E stray1 \in Stray, stray2 \in Stray :
           seqs' = gaps_all_baselines(At(sizes, si), stray1, stray2)
    /\ loads' = Append(loads, [si |-> si, ok |-> TRUE])
    /\ seqIdx' = 0
    /\ dpc' = "seq_loop"
    /\ UNCHANGED <<si, out, benchmarked, engineCalls, validated>>
    /\ DrvFrame

\* mutant of bench_skip: an invalid sequence ends the batch
bench_skip_break ==
    /\ driver = "bench" /\ dpc = "seq_loop" /\ seqIdx < NUM_BASELINES
    /\ LET v == gap_sequence_valid(At(seqs, seqIdx), TRUE) IN
           /\ v.ret = 0
           /\ out' = Append(out, Line("skip", si, seqIdx, At(seqs, seqIdx), v.reason))
    /\ seqIdx' = NUM_BASELINES
    /\ UNCHANGED <<dpc, si, ds, seqs, loads, benchmarked, engineCalls, validated>>
    /\ DrvFrame

\* !gap_sequence_valid(&seqs[i], reason, ...): print [SKIP] and continue
bench_skip ==
    /\ driver = "bench" /\ dpc = "seq_loop" /\ seqIdx < NUM_BASELINES
    /\ LET v == gap_sequence_valid(At(seqs, seqIdx), TRUE) IN
           /\ v.ret = 0
           /\ out' = Append(out, Line("skip", si, seqIdx, At(seqs, seqIdx), v.reason))
    /\ seqIdx' = seqIdx + 1
    /\ UNCHANGED <<dpc, si, ds, seqs, loads, benchmarked, engineCalls, validated>>
    /\ DrvFrame

\* the sequence is valid: benchmark_sequence, then the result row and the
\* CSV row.  benchmark_sequence returns early when its per-trial arrays
\* cannot be allocated, and skips a trial whose scratch array cannot.
bench_benchmark ==
    /\ driver = "bench" /\ dpc = "seq_loop" /\ seqIdx < NUM_BASELINES
    /\ LET sq == At(seqs, seqIdx) IN
           /\ gap_sequence_valid(sq, TRUE).ret = 1
           /\ validated' = validated \cup {sq}
           /\ benchmarked' = Append(benchmarked, [si |-> si, i |-> seqIdx, seq |-> sq])
           /\ \E arrays \in BOOLEAN, scratch \in BOOLEAN :
                  engineCalls' = engineCalls \cup
                      EngineCalls("shellsort_stats", sq, ds.trials, arrays /\ scratch)
           /\ out' = Append(out, Line("row", si, seqIdx, sq, Unwritten))
    /\ seqIdx' = seqIdx + 1
    /\ UNCHANGED <<dpc, si, ds, seqs, loads>>
    /\ DrvFrame

\* end of the sequence loop: free_dataset, next size
bench_size_done ==
    /\ driver = "bench" /\ dpc = "seq_loop" /\ seqIdx = NUM_BASELINES
    /\ si' = si + 1
    /\ ds' = NoDataset
    /\ seqs' = <<>>
    /\ seqIdx' = 0
    /\ dpc' = "size_loop"
    /\ UNCHANGED <<out, loads, benchmarked, engineCalls, validated>>
    /\ DrvFrame

\* end of the size loop: fclose, return 0
bench_return ==
    /\ driver = "bench" /\ dpc = "size_loop" /\ si = Len(sizes)
    /\ dpc' = "done"
    /\ UNCHANGED <<si, ds, seqs, seqIdx, out, loads, benchmarked, engineCalls, validated>>
    /\ DrvFrame

(* validate.c main *)
validate_load_failed ==
    /\ driver = "validate" /\ dpc = "size_loop" /\ si < Len(sizes)
    /\ loads' = Append(loads, [si |-> si, ok |-> FALSE])
    /\ out' = Append(out, Line("load_failed", si, 0, NoSeq, Unwritten))
    /\ si' = si + 1
    /\ UNCHANGED <<dpc, ds, seqs, seqIdx, benchmarked, engineCalls, validated>>
    /\ DrvFrame

\* one size: gaps_ciura, gaps_evolved, evaluate both, print the row.
\* evaluate calls shellsort for every trial whose scratch array it got.
validate_size ==
    /\ driver = "validate" /\ dpc = "size_loop" /\ si < Len(sizes)
    /\ \E trials \in Trials, stray1 \in Stray, stray2 \in Stray,
          scratch1 \in BOOLEAN, scratch2 \in BOOLEAN :
           LET N == At(sizes, si)
               ciura == gaps_ciura(N, stray1)
               evolved == gaps_evolved(N, stray2)
           IN  /\ benchmarked' = benchmarked \o
                      << [si |-> si, i |-> 0, seq |-> ciura],
                         [si |-> si, i |-> 1, seq |-> evolved] >>
               /\ engineCalls' = engineCalls
                      \cup EngineCalls("shellsort", ciura, trials, scratch1)
                      \cup EngineCalls("shellsort", evolved, trials, scratch2)
               /\ out' = out \o << Line("row", si, 0, ciura, Unwritten),
                                   Line("row", si, 1, evolved, Unwritten) >>
    /\ loads' = Append(loads, [si |-> si, ok |-> TRUE])
    /\ si' = si + 1
    /\ UNCHANGED <<dpc, ds, seqs, seqIdx, validated>>
    /\ DrvFrame

validate_return ==
    /\ driver = "validate" /\ dpc = "size_loop" /\ si = Len(sizes)
    /\ dpc' = "done"
    /\ out' = Append(out, Line("total", si, 0, NoSeq, Unwritten))
    /\ UNCHANGED <<si, ds, seqs, seqIdx, loads, benchmarked, engineCalls, validated>>
    /\ DrvFrame

(* all_baselines_bench.c main *)
all_baselines_load_failed ==
    /\ driver = "all_baselines_bench" /\ dpc = "size_loop" /\ si < Len(sizes)
    /\ loads' = Append(loads, [si |-> si, ok |-> FALSE])
    /\ out' = Append(out, Line("load_failed", si, 0, NoSeq, Unwritten))
    /\ si' = si + 1
    /\ UNCHANGED <<dpc, ds, seqs, seqIdx, benchmarked, engineCalls, validated>>
    /\ DrvFrame

\* one size: the seven sequences, benchmark each, print each
all_baselines_size ==
    /\ driver = "all_baselines_bench" /\ dpc = "size_loop" /\ si < Len(sizes)
    /\ \E trials \in Trials, stray1 \in Stray, stray2 \in Stray, stray3 \in Stray :
           LET N == At(sizes, si)
               s7 == gaps_all_baselines(N, stray1, stray2)
                         \o << gaps_evolved(N, stray3) >>
           IN  /\ benchmarked' = benchmarked \o
                      [k \in 1..7 |-> [si |-> si, i |-> k - 1, seq |-> s7[k]]]
               /\ engineCalls' = engineCalls \cup
                      UNION {EngineCalls("shellsort", s7[k], trials, TRUE) : k \in 1..7}
               /\ out' = out \o [k \in 1..7 |-> Line("row", si, k - 1, s7[k], Unwritten)]
    /\ loads' = Append(loads, [si |-> si, ok |-> TRUE])
    /\ si' = si + 1
    /\ UNCHANGED <<dpc, ds, seqs, seqIdx, validated>>
    /\ DrvFrame

all_baselines_return ==
    /\ driver = "all_baselines_bench" /\ dpc = "size_loop" /\ si = Len(sizes)
    /\ dpc' = "done"
    /\ out' = Append(out, Line("total", si, 0, NoSeq, Unwritten))
    /\ UNCHANGED <<si, ds, seqs, seqIdx, loads, benchmarked, engineCalls, validated>>
    /\ DrvFrame

(* full_bench.c main *)
\* gaps_ciura(&ciura, 10000000); gaps_evolved(&evolved, 10000000)
full_bench_generate ==
    /\ driver = "full_bench" /\ dpc = "start"
    /\ \E stray1 \in Stray, stray2 \in Stray :
           seqs' = << gaps_ciura(10000000, stray1), gaps_evolved(10000000, stray2) >>
    /\ dpc' = "size_loop"
    /\ UNCHANGED <<si, ds, seqIdx, out, loads, benchmarked, engineCalls, validated>>
    /\ DrvFrame

full_bench_load_failed ==
    /\ driver = "full_bench" /\ dpc = "size_loop" /\ si < Len(sizes)
    /\ loads' = Append(loads, [si |-> si, ok |-> FALSE])
    /\ out' = Append(out, Line("load_failed", si, 0, NoSeq, Unwritten))
    /\ si' = si + 1
    /\ UNCHANGED <<dpc, ds, seqs, seqIdx, benchmarked, engineCalls, validated>>
    /\ DrvFrame

\* one size: copy both sequences, trim them to N, benchmark_sequence both,
\* print the comparison
full_bench_size ==
    /\ driver = "full_bench" /\ dpc = "size_loop" /\ si < Len(sizes)
    /\ \E trials \in Trials :
           LET N == At(sizes, si)
               ciura_n == trim(gap_sequence_copy(seqs[1]), N)
               evolved_n == trim(gap_sequence_copy(seqs[2]), N)
           IN  /\ benchmarked' = benchmarked \o
                      << [si |-> si, i |-> 0, seq |-> ciura_n],
                         [si |-> si, i |-> 1, seq |-> evolved_n] >>
               /\ engineCalls' = engineCalls
                      \cup EngineCalls("shellsort", ciura_n, trials, TRUE)
                      \cup EngineCalls("shellsort", evolved_n, trials, TRUE)
               /\ out' = out \o << Line("row", si, 0, ciura_n, Unwritten),
                                   Line("row", si, 1, evolved_n, Unwritten) >>
    /\ loads' = Append(loads, [si |-> si, ok |-> TRUE])
    /\ si' = si + 1
    /\ UNCHANGED <<dpc, ds, seqs, seqIdx, validated>>
    /\ DrvFrame

full_bench_return ==
    /\ driver = "full_bench" /\ dpc = "size_loop" /\ si = Len(sizes)
    /\ dpc' = "done"
    /\ out' = Append(out, Line("total", si, 0, NoSeq, Unwritten))
    /\ UNCHANGED <<si, ds, seqs, seqIdx, loads, benchmarked, engineCalls, validated>>
    /\ DrvFrame

DrvNext ==
    \/ bench_load_failed
    \/ bench_load_ok
    \/ bench_skip
    \/ bench_benchmark
    \/ bench_size_done
    \/ bench_return
    \/ validate_load_failed
    \/ validate_size
    \/ validate_return
    \/ all_baselines_load_failed
    \/ all_baselines_size
    \/ all_baselines_return
    \/ full_bench_generate
    \/ full_bench_load_failed
    \/ full_bench_size
    \/ full_bench_return

SpecDrivers == DrvInit /\ [][DrvNext]_vars

(***************************************************************************)
(* permgen.c: generate_permutations(cfg, size_idx), run twice in a row     *)
(* with the same master seed and size.                                     *)
(***************************************************************************)
\* 0x5045524D47454E31, "PERMGEN1"
MAGIC == <<49, 78, 69, 71, 77, 82, 69, 80>>

\* 0xC0FFEE1234, the default master seed
DEFAULT_SEED == <<52, 18, 238, 255, 192, 0, 0, 0>>

\* --seed values
MasterSeeds == {DEFAULT_SEED, U64(1)}

PermSizes == 0..MaxPermN

PermTrials == 0..MaxPermTrials

\* what malloc'ed memory may hold
Garbage == {0, -1}

NoFile == [header |-> <<>>, data |-> <<>>]

\* the unseeded rng struct
NoRng == <<U64(0), U64(0), U64(0), U64(0)>>

PermInit ==
    /\ cfg \in [master_seed : MasterSeeds, N : PermSizes, trials : PermTrials]
    /\ run = 1
    /\ gpc = "start"
    /\ gt = 0
    /\ garr = <<>>
    /\ grng = NoRng
    /\ gi = 0
    /\ bin_file = NoFile
    /\ gret = 1
    /\ files = <<>>
    /\ seq = NoSeq
    /\ input = <<>>
    /\ SortIdle
    /\ ValidIdle
    /\ GenIdle
    /\ DrvIdle
    /\ RestIdleExcept("permgen")

PermFrame ==
    /\ UNCHANGED <<seq, sortVars, validVars, genVars, drvVars>>
    /\ RestFrameExcept("permgen")

\* malloc(N * sizeof(int32_t)) or fopen(bin_path, "wb") fails: return -1
permgen_setup_failed ==
    /\ gpc = "start"
    /\ gret' = -1
    /\ gpc' = "returned"
    /\ UNCHANGED <<cfg, run, gt, garr, grng, gi, bin_file, files>>
    /\ PermFrame

\* the buffer is allocated, the file opened, the header written
permgen_open ==
    /\ gpc = "start"
    /\ \E fill \in Garbage : garr' = [k \in 1..cfg.N |-> fill]
    /\ bin_file' = [header |-> <<MAGIC, cfg.N, cfg.trials, cfg.master_seed>>,
                    data |-> <<>>]
    /\ gt' = 0
    /\ gpc' = "loop"
    /\ UNCHANGED <<cfg, run, grng, gi, gret, files>>
    /\ PermFrame

\* t < trials: for (i = 0; i < N; i++) arr[i] = (int32_t)i
permgen_identity ==
    /\ gpc = "loop" /\ gt < cfg.trials
    /\ garr' = [k \in 1..cfg.N |-> k - 1]
    /\ gpc' = "seed"
    /\ UNCHANGED <<cfg, run, gt, grng, gi, bin_file, gret, files>>
    /\ PermFrame

\* mutant: the generator is seeded for the first trial only
permgen_seed_once ==
    /\ gpc = "seed"
    /\ grng' = IF gt = 0 THEN rng_seed(derive_seed(cfg.master_seed, cfg.N, gt))
               ELSE grng
    /\ gi' = cfg.N - 1
    /\ gpc' = "shuffle"
    /\ UNCHANGED <<cfg, run, gt, garr, bin_file, gret, files>>
    /\ PermFrame

\* seed = derive_seed(cfg->master_seed, N, t); rng_seed(&rng, seed); then
\* rng_shuffle starts at i = n - 1 (-1 here stands for the wrapped 2^64 - 1)
permgen_seed ==
    /\ gpc = "seed"
    /\ grng' = rng_seed(derive_seed(cfg.master_seed, cfg.N, gt))
    /\ gi' = cfg.N - 1
    /\ gpc' = "shuffle"
    /\ UNCHANGED <<cfg, run, gt, garr, bin_file, gret, files>>
    /\ PermFrame

\* mutant: arr[i] = arr[j] without arr[j] = tmp
permgen_shuffle_step_copy ==
    /\ gpc = "shuffle" /\ gi > 0
    /\ LET d == rng_uniform(grng, gi + 1) IN
           /\ grng' = d.s
           /\ garr' = Put(garr, gi, At(garr, d.value))
    /\ gi' = gi - 1
    /\ UNCHANGED <<cfg, run, gpc, gt, bin_file, gret, files>>
    /\ PermFrame

\* one iteration of rng_shuffle: j = rng_uniform(rng, i + 1); swap
permgen_shuffle_step ==
    /\ gpc = "shuffle" /\ gi > 0
    /\ LET d == rng_uniform(grng, gi + 1) IN
           /\ grng' = d.s
           /\ garr' = swap(garr, gi, d.value)
    /\ gi' = gi - 1
    /\ UNCHANGED <<cfg, run, gpc, gt, bin_file, gret, files>>
    /\ PermFrame

\* i == 0: rng_shuffle returns
permgen_shuffle_done ==
    /\ gpc = "shuffle" /\ gi = 0
    /\ gpc' = "write"
    /\ UNCHANGED <<cfg, run, gt, garr, grng, gi, bin_file, gret, files>>
    /\ PermFrame

\* N == 0: i = n - 1 wraps, arr[i] is far outside the buffer
permgen_shuffle_wild ==
    /\ gpc = "shuffle" /\ gi < 0
    /\ gpc' = "undefined"
    /\ UNCHANGED <<cfg, run, gt, garr, grng, gi, bin_file, gret, files>>
    /\ PermFrame

\* fwrite(arr, sizeof(int32_t), N, bin_file) == N; t++
permgen_write ==
    /\ gpc = "write"
    /\ bin_file' = [bin_file EXCEPT !.data = @ \o garr]
    /\ gt' = gt + 1
    /\ gpc' = "loop"
    /\ UNCHANGED <<cfg, run, garr, grng, gi, gret, files>>
    /\ PermFrame

\* fwrite writes fewer than N elements: return -1
permgen_write_failed ==
    /\ gpc = "write"
    /\ \E k \in 0..(cfg.N - 1) :
           bin_file' = [bin_file EXCEPT !.data = @ \o SubSeq(garr, 1, k)]
    /\ gret' = -1
    /\ gpc' = "returned"
    /\ UNCHANGED <<cfg, run, gt, garr, grng, gi, files>>
    /\ PermFrame

\* t == trials: fclose, free; the .meta file cannot be opened: return -1
permgen_meta_failed ==
    /\ gpc = "loop" /\ gt = cfg.trials
    /\ gret' = -1
    /\ gpc' = "returned"
    /\ UNCHANGED <<cfg, run, gt, garr, grng, gi, bin_file, files>>
    /\ PermFrame

\* t == trials: fclose, free, the .meta file is written: return 0
permgen_return ==
    /\ gpc = "loop" /\ gt = cfg.trials
    /\ gret' = 0
    /\ gpc' = "returned"
    /\ UNCHANGED <<cfg, run, gt, garr, grng, gi, bin_file, files>>
    /\ PermFrame

\* permgen is run again with the same master seed and size
permgen_rerun ==
    /\ gpc = "returned" /\ run = 1
    /\ files' = Append(files, [bin |-> bin_file, ret |-> gret])
    /\ \E trials \in PermTrials : cfg' = [cfg EXCEPT !.trials = trials]
    /\ run' = 2
    /\ gpc' = "start"
    /\ gt' = 0
    /\ garr' = <<>>
    /\ grng' = NoRng
    /\ gi' = 0
    /\ bin_file' = NoFile
    /\ gret' = 1
    /\ PermFrame

PermNext ==
    \/ permgen_setup_failed
    \/ permgen_open
    \/ permgen_identity
    \/ permgen_seed
    \/ permgen_shuffle_step
    \/ permgen_shuffle_done
    \/ permgen_shuffle_wild
    \/ permgen_write
    \/ permgen_write_failed
    \/ permgen_meta_failed
    \/ permgen_return
    \/ permgen_rerun

SpecPerm == PermInit /\ [][PermNext]_vars

(***************************************************************************)
(* rng_uniform (rng.h) on words of WordBits bits: the raw word of each     *)
(* rng_next is any word.                                                   *)
(***************************************************************************)
Words == 0..(pow2(WordBits) - 1)

\* a word as its bits, LSB first
Word(r) == to_digits(r, 2, WordBits)

\* the other parts of the program at rest
CoreIdle ==
    /\ seq = NoSeq
    /\ input = <<>>
    /\ SortIdle
    /\ ValidIdle
    /\ GenIdle
    /\ DrvIdle

coreVars == <<seq, sortVars, validVars, genVars, drvVars>>

UniInit ==
    /\ un \in Words
    /\ uthreshold = 0
    /\ uraw = <<>>
    /\ udraws = 0
    /\ upc = "call"
    /\ uret = -1
    /\ CoreIdle
    /\ RestIdleExcept("rng_uniform")

UniFrame == UNCHANGED coreVars /\ RestFrameExcept("rng_uniform")

\* if (n == 0) return 0;
uniform_zero ==
    /\ upc = "call"
    /\ un = 0
    /\ upc' = "returned"
    /\ uret' = 0
    /\ UNCHANGED <<un, uthreshold, uraw, udraws>>
    /\ UniFrame

\* uint64_t threshold = -n % n;
uniform_enter ==
    /\ upc = "call"
    /\ un # 0
    /\ uthreshold' = uniform_threshold(un, WordBits)
    /\ upc' = "loop"
    /\ UNCHANGED <<un, uraw, udraws, uret>>
    /\ UniFrame

\* r = rng_next(rng) with r < threshold: draw again
uniform_reject ==
    /\ upc = "loop"
    /\ udraws < MaxDraws
    /\ \E r \in Words :
          /\ ~word_ge(Word(r), 2, uthreshold)
          /\ uraw' = Word(r)
    /\ udraws' = udraws + 1
    /\ UNCHANGED <<un, uthreshold, upc, uret>>
    /\ UniFrame

\* r = rng_next(rng) with r >= threshold: return r % n
uniform_accept ==
    /\ upc = "loop"
    /\ udraws < MaxDraws
    /\ \E r \in Words :
          /\ word_ge(Word(r), 2, uthreshold)
          /\ uraw' = Word(r)
          /\ uret' = word_mod(Word(r), 2, un, 1)
    /\ udraws' = udraws + 1
    /\ upc' = "returned"
    /\ UNCHANGED <<un, uthreshold>>
    /\ UniFrame

UniNext ==
    \/ uniform_zero
    \/ uniform_enter
    \/ uniform_reject
    \/ uniform_accept

SpecUniform == UniInit /\ [][UniNext]_vars

(***************************************************************************)
(* load_dataset: the four copies differ in what they check.                *)
(***************************************************************************)
Loaders == {"bench", "validate", "full_bench", "all_baselines_bench"}

\* bench.c compares every fread with the count asked for and ds->N with N
ChecksReads(l) == l = "bench"

\* all_baselines_bench.c uses the result of malloc unchecked
ChecksMalloc(l) == l # "all_baselines_bench"

\* first eight bytes of a file of another format
BAD_MAGIC == U64(0)

\* the files a loader may find: none, or one holding the first `fields` of
\* the four header words (magic, N, trials, seed) and, after a whole header,
\* some prefix of the trials * N elements
BinFilesOnDisk ==
    {NoBinFile} \cup
    {[present |-> TRUE, fields |-> h, magic |-> m, N |-> nn, trials |-> tr,
      data |-> [k \in 1..d |-> (k - 1) % nn]] :
        h \in 0..4, m \in {MAGIC, BAD_MAGIC}, nn \in 1..MaxLoadN,
        tr \in 1..MaxLoadTrials, d \in 0..(MaxLoadN * MaxLoadTrials)}

\* a file is cut inside the header, inside the data, or is whole
WellFormedCut(f) ==
    f.present =>
        /\ Len(f.data) <= f.N * f.trials
        /\ f.fields < 4 => Len(f.data) = 0
        /\ f.fields < 3 => f.trials = 1
        /\ f.fields < 2 => f.N = 1
        /\ f.fields < 1 => f.magic = MAGIC

Min(a, b) == IF a < b THEN a ELSE b

\* the caller's dset and the local magic start with whatever the stack holds
LoadInit ==
    /\ loader \in Loaders
    /\ lreq \in 1..MaxLoadN
    /\ lfile \in {f \in BinFilesOnDisk : WellFormedCut(f)}
    /\ lpc = "open"
    /\ lmagic \in {MAGIC, BAD_MAGIC}
    /\ lds \in [N : 0..MaxLoadN, trials : 0..MaxLoadTrials]
    /\ ldata = <<>>
    /\ lread = 0
    /\ lret = 1
    /\ CoreIdle
    /\ RestIdleExcept("load_dataset")

LoadFrame == UNCHANGED coreVars /\ RestFrameExcept("load_dataset")

\* fopen fails: return -1
load_open_failed ==
    /\ lpc = "open"
    /\ ~lfile.present
    /\ lpc' = "returned"
    /\ lret' = -1
    /\ UNCHANGED <<loader, lreq, lfile, lmagic, lds, ldata, lread>>
    /\ LoadFrame

load_open ==
    /\ lpc = "open"
    /\ lfile.present
    /\ lpc' = "magic"
    /\ UNCHANGED <<loader, lreq, lfile, lmagic, lds, ldata, lread, lret>>
    /\ LoadFrame

\* fread(&magic, ...): a short read leaves magic as it was
load_magic_rejected ==
    /\ lpc = "magic"
    /\ lmagic' = IF lfile.fields >= 1 THEN lfile.magic ELSE lmagic
    /\ \/ ChecksReads(loader) /\ lfile.fields < 1
       \/ lmagic' # MAGIC
    /\ lpc' = "returned"
    /\ lret' = -1
    /\ UNCHANGED <<loader, lreq, lfile, lds, ldata, lread>>
    /\ LoadFrame

load_magic_accepted ==
    /\ lpc = "magic"
    /\ lmagic' = IF lfile.fields >= 1 THEN lfile.magic ELSE lmagic
    /\ ~(ChecksReads(loader) /\ lfile.fields < 1)
    /\ lmagic' = MAGIC
    /\ lpc' = "header"
    /\ UNCHANGED <<loader, lreq, lfile, lds, ldata, lread, lret>>
    /\ LoadFrame

\* ds->N, ds->trials after the three header freads: a short read leaves the
\* field as it was
header_read(f, dset) ==
    [N |-> IF f.fields >= 2 THEN f.N ELSE dset.N,
     trials |-> IF f.fields >= 3 THEN f.trials ELSE dset.trials]

\* bench.c: one of the three header freads did not deliver: return -1
load_header_short ==
    /\ lpc = "header"
    /\ ChecksReads(loader)
    /\ lfile.fields < 4
    /\ lds' = header_read(lfile, lds)
    /\ lpc' = "returned"
    /\ lret' = -1
    /\ UNCHANGED <<loader, lreq, lfile, lmagic, ldata, lread>>
    /\ LoadFrame

\* bench.c: if (ds->N != N) return -1
load_n_mismatch ==
    /\ lpc = "header"
    /\ ChecksReads(loader)
    /\ lfile.fields = 4
    /\ lds' = header_read(lfile, lds)
    /\ lds'.N # lreq
    /\ lpc' = "returned"
    /\ lret' = -1
    /\ UNCHANGED <<loader, lreq, lfile, lmagic, ldata, lread>>
    /\ LoadFrame

\* the header is read; the other three loaders go on whatever was read
load_header ==
    /\ lpc = "header"
    /\ lds' = header_read(lfile, lds)
    /\ ChecksReads(loader) => (lfile.fields = 4 /\ lds'.N = lreq)
    /\ lpc' = "alloc"
    /\ UNCHANGED <<loader, lreq, lfile, lmagic, ldata, lread, lret>>
    /\ LoadFrame

\* malloc returns NULL and the loader sees it: return -1
load_alloc_failed ==
    /\ lpc = "alloc"
    /\ ChecksMalloc(loader)
    /\ lpc' = "returned"
    /\ lret' = -1
    /\ UNCHANGED <<loader, lreq, lfile, lmagic, lds, ldata, lread>>
    /\ LoadFrame

\* how many elements fread(ds->data, sizeof(int32_t), total, f) delivers
data_read(f, dset) ==
    IF f.fields = 4 THEN Min(dset.trials * dset.N, Len(f.data)) ELSE 0

\* all_baselines_bench.c: malloc returns NULL and fread is given the null
\* pointer: undefined when it has elements to store, else return 0
load_alloc_unchecked ==
    /\ lpc = "alloc"
    /\ ~ChecksMalloc(loader)
    /\ lread' = 0
    /\ IF data_read(lfile, lds) > 0
       THEN lpc' = "undefined" /\ lret' = lret
       ELSE lpc' = "returned" /\ lret' = 0
    /\ UNCHANGED <<loader, lreq, lfile, lmagic, lds, ldata>>
    /\ LoadFrame

\* ds->data = malloc(total * sizeof(int32_t)): a buffer of anything
load_alloc ==
    /\ lpc = "alloc"
    /\ \E junk \in Garbage : ldata' = [k \in 1..(lds.trials * lds.N) |-> junk]
    /\ lpc' = "data"
    /\ UNCHANGED <<loader, lreq, lfile, lmagic, lds, lread, lret>>
    /\ LoadFrame

\* the buffer after the data fread: the elements delivered, then what the
\* buffer held
buffer_read(f, dset, buf) ==
    [k \in 1..Len(buf) |-> IF k <= data_read(f, dset) THEN f.data[k] ELSE buf[k]]

\* bench.c: fread delivered fewer than total elements: free, return -1
load_data_short ==
    /\ lpc = "data"
    /\ ChecksReads(loader)
    /\ data_read(lfile, lds) # lds.trials * lds.N
    /\ lread' = data_read(lfile, lds)
    /\ ldata' = <<>>
    /\ lpc' = "returned"
    /\ lret' = -1
    /\ UNCHANGED <<loader, lreq, lfile, lmagic, lds>>
    /\ LoadFrame

\* return 0 with the buffer as the data fread left it
load_data ==
    /\ lpc = "data"
    /\ ChecksReads(loader) => data_read(lfile, lds) = lds.trials * lds.N
    /\ lread' = data_read(lfile, lds)
    /\ ldata' = buffer_read(lfile, lds, ldata)
    /\ lpc' = "returned"
    /\ lret' = 0
    /\ UNCHANGED <<loader, lreq, lfile, lmagic, lds>>
    /\ LoadFrame

LoadNext ==
    \/ load_open_failed
    \/ load_open
    \/ load_magic_rejected
    \/ load_magic_accepted
    \/ load_header_short
    \/ load_n_mismatch
    \/ load_header
    \/ load_alloc_failed
    \/ load_alloc_unchecked
    \/ load_alloc
    \/ load_data_short
    \/ load_data

SpecLoad == LoadInit /\ [][LoadNext]_vars

(***************************************************************************)
(* The parallel trial loop (#pragma omp parallel for schedule(static)) and *)
(* what main reports from it.  The sort itself is the engine above; here   *)
(* it is one step that writes the trial's scratch array and returns the    *)
(* row's count.  Locals declared in the loop body (arr, stats, t_start)    *)
(* are private to a thread and are not recorded as writes.                 *)
(***************************************************************************)
TrialProgs == {"bench", "validate", "full_bench", "all_baselines_bench"}

\* bench.c and full_bench.c keep one slot per trial, validate.c and
\* all_baselines_bench.c reduce into total
KeepsSlots(p) == p \in {"bench", "full_bench"}

\* full_bench.c and all_baselines_bench.c use the results of malloc unchecked
ChecksAllocs(p) == p \in {"bench", "validate"}

\* comparisons a sort may return
Counts == {3, 5}

\* schedule(static): thread w of k takes one contiguous chunk of 1..n
Chunk(cnt, k) == (cnt + k - 1) \div k
FirstTrial(w, cnt, k) == (w - 1) * Chunk(cnt, k) + 1
\* mutant: the chunks of neighbouring threads overlap by one trial
LastTrial_overlapping(w, cnt, k) == Min(cnt, w * Chunk(cnt, k) + 1)
LastTrial(w, cnt, k) == Min(cnt, w * Chunk(cnt, k))

RECURSIVE SumSeq(_)
SumSeq(s) == IF s = <<>> THEN 0 ELSE Head(s) + SumSeq(Tail(s))

\* the slot a trial stores its counts in
slot_shared(t) == 1

slot_of(t) == t

TrialInit ==
    /\ tprog \in TrialProgs
    /\ tthreads \in 1..MaxThreads
    /\ ttrials \in 1..MaxParTrials
    /\ tcounts \in [1..ttrials -> Counts]
    /\ tpc = IF KeepsSlots(tprog) THEN "arrays" ELSE "loop"
    /\ tarrays = "none"
    /\ tslots = <<>>
    /\ tacc = [w \in 1..tthreads |-> 0]
    /\ wpc = [w \in 1..tthreads |->
                 IF FirstTrial(w, ttrials, tthreads) <= LastTrial(w, ttrials, tthreads)
                 THEN "alloc" ELSE "done"]
    /\ wt = [w \in 1..tthreads |-> FirstTrial(w, ttrials, tthreads)]
    /\ tscratch = [t \in 1..ttrials |-> "none"]
    /\ tdone = {}
    /\ twrites = {}
    /\ tresult \in {[total |-> junk, trials |-> junk] : junk \in Garbage}
    /\ treport = <<>>
    /\ CoreIdle
    /\ RestIdleExcept("trial_loop")

TrialFrame == UNCHANGED coreVars /\ RestFrameExcept("trial_loop")

TrialConfig == <<tprog, tthreads, ttrials, tcounts>>

\* a write of worker w, running trial t, to element idx of an object
Write(obj, idx, t, w) == [loc |-> <<obj, idx>>, trial |-> t, worker |-> w]

\* the per-trial arrays are allocated: their slots hold anything
arrays_alloc ==
    /\ tpc = "arrays"
    /\ tarrays' = "allocated"
    /\ \E junk \in Garbage : tslots' = [t \in 1..ttrials |-> junk]
    /\ tpc' = "loop"
    /\ UNCHANGED <<TrialConfig, tacc, wpc, wt, tscratch, tdone, twrites, tresult,
                   treport>>
    /\ TrialFrame

\* bench.c: one of the three mallocs returns NULL: benchmark_sequence
\* returns with result as it was
arrays_alloc_failed ==
    /\ tpc = "arrays"
    /\ ChecksAllocs(tprog)
    /\ tarrays' = "null"
    /\ tpc' = "report"
    /\ UNCHANGED <<TrialConfig, tslots, tacc, wpc, wt, tscratch, tdone, twrites,
                   tresult, treport>>
    /\ TrialFrame

\* full_bench.c: a malloc returns NULL and the loop stores through it
arrays_alloc_unchecked ==
    /\ tpc = "arrays"
    /\ ~ChecksAllocs(tprog)
    /\ tarrays' = "null"
    /\ tpc' = "undefined"
    /\ UNCHANGED <<TrialConfig, tslots, tacc, wpc, wt, tscratch, tdone, twrites,
                   tresult, treport>>
    /\ TrialFrame

\* the position of worker w after the body of its trial
NextTrial(w) ==
    IF wt[w] < LastTrial(w, ttrials, tthreads)
    THEN /\ wt' = [wt EXCEPT ![w] = wt[w] + 1]
         /\ wpc' = [wpc EXCEPT ![w] = "alloc"]
    ELSE /\ wt' = wt
         /\ wpc' = [wpc EXCEPT ![w] = "done"]

\* int32_t *arr = malloc(N * sizeof(int32_t));
trial_alloc ==
    /\ tpc = "loop"
    /\ \E w \in 1..tthreads :
          /\ wpc[w] = "alloc"
          /\ tscratch' = [tscratch EXCEPT ![wt[w]] = "allocated"]
          /\ wpc' = [wpc EXCEPT ![w] = "copy"]
    /\ UNCHANGED <<TrialConfig, tpc, tarrays, tslots, tacc, wt, tdone, twrites,
                   tresult, treport>>
    /\ TrialFrame

\* if (!arr) continue;
trial_alloc_skipped ==
    /\ tpc = "loop"
    /\ ChecksAllocs(tprog)
    /\ \E w \in 1..tthreads :
          /\ wpc[w] = "alloc"
          /\ NextTrial(w)
    /\ UNCHANGED <<TrialConfig, tpc, tarrays, tslots, tacc, tscratch, tdone,
                   twrites, tresult, treport>>
    /\ TrialFrame

\* full_bench.c, all_baselines_bench.c: malloc returns NULL and memcpy
\* writes through it
trial_alloc_unchecked ==
    /\ tpc = "loop"
    /\ ~ChecksAllocs(tprog)
    /\ \E w \in 1..tthreads : wpc[w] = "alloc"
    /\ tpc' = "undefined"
    /\ UNCHANGED <<TrialConfig, tarrays, tslots, tacc, wpc, wt, tscratch, tdone,
                   twrites, tresult, treport>>
    /\ TrialFrame

\* memcpy(arr, &ds->data[t * N], N * sizeof(int32_t));
trial_copy ==
    /\ tpc = "loop"
    /\ \E w \in 1..tthreads :
          /\ wpc[w] = "copy"
          /\ tscratch' = [tscratch EXCEPT ![wt[w]] = "copied"]
          /\ twrites' = twrites \cup {Write("arr", wt[w], wt[w], w)}
          /\ wpc' = [wpc EXCEPT ![w] = "sort"]
    /\ UNCHANGED <<TrialConfig, tpc, tarrays, tslots, tacc, wt, tdone, tresult,
                   treport>>
    /\ TrialFrame

\* shellsort(arr, N, seq) / shellsort_stats(arr, N, seq): sorts arr in place
trial_sort ==
    /\ tpc = "loop"
    /\ \E w \in 1..tthreads :
          /\ wpc[w] = "sort"
          /\ tscratch' = [tscratch EXCEPT ![wt[w]] = "sorted"]
          /\ twrites' = twrites \cup {Write("arr", wt[w], wt[w], w)}
          /\ wpc' = [wpc EXCEPT ![w] = "store"]
    /\ UNCHANGED <<TrialConfig, tpc, tarrays, tslots, tacc, wt, tdone, tresult,
                   treport>>
    /\ TrialFrame

\* the counts of the sort go to slot t of the per-trial arrays, or are
\* added to the thread's copy of total
trial_store ==
    /\ tpc = "loop"
    /\ \E w \in 1..tthreads :
          /\ wpc[w] = "store"
          /\ IF KeepsSlots(tprog)
             THEN /\ tslots' = [tslots EXCEPT ![slot_of(wt[w])] = tcounts[wt[w]]]
                  /\ tacc' = tacc
                  /\ twrites' = twrites \cup
                        {Write("runtimes_us", slot_of(wt[w]), wt[w], w),
                         Write("comp_counts", slot_of(wt[w]), wt[w], w)} \cup
                        (IF tprog = "bench"
                         THEN {Write("move_counts", slot_of(wt[w]), wt[w], w)}
                         ELSE {})
             ELSE /\ tslots' = tslots
                  /\ tacc' = [tacc EXCEPT ![w] = tacc[w] + tcounts[wt[w]]]
                  /\ twrites' = twrites \cup {Write("total", w, wt[w], w)}
          /\ tdone' = tdone \cup {wt[w]}
          /\ wpc' = [wpc EXCEPT ![w] = "free"]
    /\ UNCHANGED <<TrialConfig, tpc, tarrays, wt, tscratch, tresult, treport>>
    /\ TrialFrame

\* free(arr);
trial_free ==
    /\ tpc = "loop"
    /\ \E w \in 1..tthreads :
          /\ wpc[w] = "free"
          /\ tscratch' = [tscratch EXCEPT ![wt[w]] = "freed"]
          /\ NextTrial(w)
    /\ UNCHANGED <<TrialConfig, tpc, tarrays, tslots, tacc, tdone, twrites,
                   tresult, treport>>
    /\ TrialFrame

\* the end of the parallel region, then the total over the slots (bench.c,
\* full_bench.c compute_stats) or over the threads' copies (validate.c);
\* the mean is total / trials
loop_join ==
    /\ tpc = "loop"
    /\ \A w \in 1..tthreads : wpc[w] = "done"
    /\ tresult' = [total |-> IF KeepsSlots(tprog) THEN SumSeq(tslots) ELSE SumSeq(tacc),
                   trials |-> ttrials]
    /\ tpc' = "report"
    /\ UNCHANGED <<TrialConfig, tarrays, tslots, tacc, wpc, wt, tscratch, tdone,
                   twrites, treport>>
    /\ TrialFrame

\* main prints the row of this configuration from the result
report_row ==
    /\ tpc = "report"
    /\ treport' = Append(treport, tresult)
    /\ tpc' = "returned"
    /\ UNCHANGED <<TrialConfig, tarrays, tslots, tacc, wpc, wt, tscratch, tdone,
                   twrites, tresult>>
    /\ TrialFrame

TrialNext ==
    \/ arrays_alloc
    \/ arrays_alloc_failed
    \/ arrays_alloc_unchecked
    \/ trial_alloc
    \/ trial_alloc_skipped
    \/ trial_alloc_unchecked
    \/ trial_copy
    \/ trial_sort
    \/ trial_store
    \/ trial_free
    \/ loop_join
    \/ report_row

SpecTrials == TrialInit /\ [][TrialNext]_vars

(***************************************************************************)
(* What main reports (bench.c, validate.c, all_baselines_bench.c,          *)
(* full_bench.c).  One action is one iteration of the size loop or the     *)
(* lines after it.  The means of a size are inputs: baseline i has mean    *)
(* base + i, the evolved sequence has its own.  A percentage is kept as    *)
(* the fraction num / den the code computes.                               *)
(***************************************************************************)
\* index of the evolved sequence in seqs[7] and results[7][4]
EVOLVED == 6

\* the size indices of sizes[]
SizeIdx == 0..(Len(FixedSizes) - 1)

\* mean comparison counts a benchmark may return
Means == {100, 110}

NoTotals == [baseline |-> 0, candidate |-> 0, uses |-> {}]

\* a number printed: its kind, size index, sequence index, value num / den,
\* for a percentage the two means compared, and the size indices whose data
\* the value was computed from
RLine(kind, s, idx, num, den, b, c, uses) ==
    [kind |-> kind, si |-> s, i |-> idx, num |-> num, den |-> den,
     baseline |-> b, candidate |-> c, uses |-> uses]

\* (b - c) / b * 100.0
pct_of_baseline(kind, s, idx, b, c, uses) ==
    RLine(kind, s, idx, (b - c) * 100, b, b, c, uses)

\* (results[i][s] - results[6][s]) / results[6][s] * 100.0
pct_vs_evolved(kind, s, idx, b, c, uses) ==
    RLine(kind, s, idx, (b - c) * 100, c, b, c, uses)

\* the mean of sequence idx when the baselines' level is base and the
\* evolved sequence's mean is ev
MeanOf(idx, base, ev) == IF idx = EVOLVED THEN ev ELSE base + idx

ReportInit ==
    /\ rprog \in Drivers
    /\ rpc = "size_loop"
    /\ rsi = 0
    /\ rfailed = {}
    /\ rresults \in {[x \in (0..EVOLVED) \X SizeIdx |-> junk] : junk \in Garbage}
    /\ rtotals = NoTotals
    /\ rout = <<>>
    /\ CoreIdle
    /\ RestIdleExcept("report")

ReportFrame == UNCHANGED coreVars /\ RestFrameExcept("report")

\* load_dataset(...) < 0: continue
report_load_failed ==
    /\ rpc = "size_loop" /\ rsi \in SizeIdx
    /\ rfailed' = rfailed \cup {rsi}
    /\ rout' = Append(rout, RLine("load_failed", rsi, 0, 0, 1, 0, 0, {}))
    /\ rsi' = rsi + 1
    /\ UNCHANGED <<rprog, rpc, rresults, rtotals>>
    /\ ReportFrame

\* bench.c: one row per baseline of this size
report_bench_size ==
    /\ rprog = "bench" /\ rpc = "size_loop" /\ rsi \in SizeIdx
    /\ \E base \in Means :
          rout' = rout \o [k \in 1..NUM_BASELINES |->
                     RLine("row", rsi, k - 1, MeanOf(k - 1, base, 0), 1, 0, 0, {rsi})]
    /\ rsi' = rsi + 1
    /\ UNCHANGED <<rprog, rpc, rfailed, rresults, rtotals>>
    /\ ReportFrame

\* validate.c: ciura_mean, evolved_mean, diff_pct; then the totals grow
report_validate_size ==
    /\ rprog = "validate" /\ rpc = "size_loop" /\ rsi \in SizeIdx
    /\ \E ciura_mean \in Means, evolved_mean \in Means :
          /\ rout' = Append(rout,
                 pct_of_baseline("row", rsi, 0, ciura_mean, evolved_mean, {rsi}))
          /\ rtotals' = [baseline |-> rtotals.baseline + ciura_mean,
                         candidate |-> rtotals.candidate + evolved_mean,
                         uses |-> rtotals.uses \cup {rsi}]
    /\ rsi' = rsi + 1
    /\ UNCHANGED <<rprog, rpc, rfailed, rresults>>
    /\ ReportFrame

\* full_bench.c: the improvement of this size; then the totals grow
report_full_bench_size ==
    /\ rprog = "full_bench" /\ rpc = "size_loop" /\ rsi \in SizeIdx
    /\ \E ciura_mean \in Means, evolved_mean \in Means :
          /\ rout' = Append(rout,
                 pct_of_baseline("row", rsi, 0, ciura_mean, evolved_mean, {rsi}))
          /\ rtotals' = [baseline |-> rtotals.baseline + ciura_mean,
                         candidate |-> rtotals.candidate + evolved_mean,
                         uses |-> rtotals.uses \cup {rsi}]
    /\ rsi' = rsi + 1
    /\ UNCHANGED <<rprog, rpc, rfailed, rresults>>
    /\ ReportFrame

\* all_baselines_bench.c: results[i][s] = benchmark(...) for the seven
\* sequences, then one line per sequence with vs_evolved
report_all_baselines_size ==
    /\ rprog = "all_baselines_bench" /\ rpc = "size_loop" /\ rsi \in SizeIdx
    /\ \E base \in Means, ev \in Means :
          /\ rresults' = [x \in DOMAIN rresults |->
                             IF x[2] = rsi THEN MeanOf(x[1], base, ev) ELSE rresults[x]]
          /\ rout' = rout \o [k \in 1..(EVOLVED + 1) |->
                 IF k - 1 = EVOLVED
                 THEN RLine("row", rsi, k - 1, rresults'[k - 1, rsi], 1, 0, 0, {rsi})
                 ELSE pct_vs_evolved("row", rsi, k - 1, rresults'[k - 1, rsi],
                                     rresults'[EVOLVED, rsi], {rsi})]
    /\ rsi' = rsi + 1
    /\ UNCHANGED <<rprog, rpc, rfailed, rtotals>>
    /\ ReportFrame

\* bench.c: nothing is printed from the means after the loop
report_bench_end ==
    /\ rprog = "bench" /\ rpc = "size_loop" /\ rsi \notin SizeIdx
    /\ rpc' = "done"
    /\ UNCHANGED <<rprog, rsi, rfailed, rresults, rtotals, rout>>
    /\ ReportFrame

\* validate.c: the TOTAL row with total_diff; full_bench.c: the aggregate
\* improvement
report_totals ==
    /\ rprog \in {"validate", "full_bench"}
    /\ rpc = "size_loop" /\ rsi \notin SizeIdx
    /\ rout' = Append(rout,
           pct_of_baseline("total", rsi, 0, rtotals.baseline, rtotals.candidate,
                           rtotals.uses))
    /\ rpc' = "done"
    /\ UNCHANGED <<rprog, rsi, rfailed, rresults, rtotals>>
    /\ ReportFrame

\* results[i][0] + results[i][1] + results[i][2] + results[i][3]
RowTotal(res, idx) == SumSeq([k \in 1..Len(FixedSizes) |-> res[idx, k - 1]])

\* all_baselines_bench.c: the summary table, then the improvement of the
\* evolved sequence over each baseline
report_all_baselines_summary ==
    /\ rprog = "all_baselines_bench"
    /\ rpc = "size_loop" /\ rsi \notin SizeIdx
    /\ rout' = rout
           \o [k \in 1..(EVOLVED + 1) |->
                 RLine("summary", rsi, k - 1, RowTotal(rresults, k - 1), 1, 0, 0, SizeIdx)]
           \o [k \in 1..EVOLVED |->
                 pct_of_baseline("improvement", rsi, k - 1, RowTotal(rresults, k - 1),
                                 RowTotal(rresults, EVOLVED), SizeIdx)]
    /\ rpc' = "done"
    /\ UNCHANGED <<rprog, rsi, rfailed, rresults, rtotals>>
    /\ ReportFrame

ReportNext ==
    \/ report_load_failed
    \/ report_bench_size
    \/ report_validate_size
    \/ report_full_bench_size
    \/ report_all_baselines_size
    \/ report_bench_end
    \/ report_totals
    \/ report_all_baselines_summary

SpecReport == ReportInit /\ [][ReportNext]_vars

(***************************************************************************)
(* The statistics in exact arithmetic.  A double is a fraction num / den   *)
(* in lowest terms ("num"), the positive root of one that is no perfect    *)
(* square ("root"), an infinity ("inf", num its sign), a NaN ("nan"), or   *)
(* erfc(sqrt(num / den / 2)) ("erfc"); rounding is left out.               *)
(***************************************************************************)
RECURSIVE gcd(_, _)
gcd(x, y) == IF y = 0 THEN x ELSE gcd(y, x % y)

Abs(x) == IF x < 0 THEN -x ELSE x

Sign(x) == IF x < 0 THEN -1 ELSE IF x > 0 THEN 1 ELSE 0

NaN == [kind |-> "nan", num |-> 0, den |-> 0]

Inf(sign) == [kind |-> "inf", num |-> sign, den |-> 0]

Unset == [kind |-> "unset", num |-> 0, den |-> 0]

\* the double x / y for integers x and y: 0/0 is NaN, x/0 an infinity
Dbl(x, y) ==
    IF y = 0 THEN (IF x = 0 THEN NaN ELSE Inf(Sign(x)))
    ELSE LET d == gcd(Abs(x), Abs(y)) IN
         [kind |-> "num", num |-> (Sign(y) * x) \div d, den |-> Abs(y) \div d]

\* a / b for two fractions, or NaN once an operand is NaN
ddiv(a, b) ==
    IF a.kind # "num" \/ b.kind # "num" THEN NaN
    ELSE Dbl(a.num * b.den, a.den * b.num)

dsub(a, b) ==
    IF a.kind # "num" \/ b.kind # "num" THEN NaN
    ELSE Dbl(a.num * b.den - b.num * a.den, a.den * b.den)

dadd(a, b) ==
    IF a.kind # "num" \/ b.kind # "num" THEN NaN
    ELSE Dbl(a.num * b.den + b.num * a.den, a.den * b.den)

dmul(a, b) ==
    IF a.kind # "num" \/ b.kind # "num" THEN NaN
    ELSE Dbl(a.num * b.num, a.den * b.den)

\* the least k >= from with k * k >= x
RECURSIVE isqrt_from(_, _)
isqrt_from(x, from) == IF from * from >= x THEN from ELSE isqrt_from(x, from + 1)

IsSquare(x) == isqrt_from(x, 0) * isqrt_from(x, 0) = x

\* sqrt(a) of a fraction
dsqrt(a) ==
    IF a.kind # "num" \/ a.num < 0 THEN NaN
    ELSE IF IsSquare(a.num) /\ IsSquare(a.den)
         THEN Dbl(isqrt_from(a.num, 0), isqrt_from(a.den, 0))
         ELSE [kind |-> "root", num |-> a.num, den |-> a.den]

\* the square of a root or fraction
dsquare(a) ==
    IF a.kind = "root" THEN Dbl(a.num, a.den)
    ELSE IF a.kind = "num" THEN dmul(a, a)
    ELSE NaN

\* a / sqrt(cnt) for a root or fraction a >= 0
div_sqrt(a, cnt) == dsqrt(ddiv(dsquare(a), Dbl(cnt, 1)))

\* sum += x[k]
RECURSIVE dsum(_)
dsum(xs) == IF xs = <<>> THEN Dbl(0, 1) ELSE dadd(Head(xs), dsum(Tail(xs)))

\* var += diff * diff, diff = x[k] - mean
sum_sq(xs, mean) ==
    dsum([k \in 1..Len(xs) |-> dmul(dsub(xs[k], mean), dsub(xs[k], mean))])

AsDoubles(counts) == [k \in 1..Len(counts) |-> Dbl(counts[k], 1)]

\* bench.c divides the squared deviations by trials
population_denominator(cnt) == cnt

\* mutant of sample_denominator
sample_denominator_n(cnt) == cnt

\* full_bench.c divides them by trials - 1
sample_denominator(cnt) == cnt - 1

\* min_comparisons = max_comparisons = comp_counts[0]; for (t = 0; ...)
\*     if (comp_counts[t] < min) min = comp_counts[t];
\*     if (comp_counts[t] > max) max = comp_counts[t];
RECURSIVE min_max_loop(_, _, _)
min_max_loop(counts, k, acc) ==
    IF ~(k < Len(counts)) THEN acc
    ELSE min_max_loop(counts, k + 1,
             [min |-> IF At(counts, k) < acc.min THEN At(counts, k) ELSE acc.min,
              max |-> IF At(counts, k) > acc.max THEN At(counts, k) ELSE acc.max])

min_max(counts) == min_max_loop(counts, 0, [min |-> At(counts, 0), max |-> At(counts, 0)])

\* bench.c benchmark_sequence: min_comparisons, max_comparisons,
\* mean_comparisons, stddev, stderr_val
bench_stats(counts) ==
    LET trials == Len(counts)
        mean == ddiv(Dbl(SumSeq(counts), 1), Dbl(trials, 1))
        stddev == dsqrt(ddiv(sum_sq(AsDoubles(counts), mean),
                             Dbl(population_denominator(trials), 1)))
    IN  [mean |-> mean, stddev |-> stddev, stderr |-> div_sqrt(stddev, trials),
         min |-> Dbl(min_max(counts).min, 1), max |-> Dbl(min_max(counts).max, 1)]

\* full_bench.c compute_stats: mean_comps, stddev_comps, stderr_comps
compute_stats(counts) ==
    LET trials == Len(counts)
        mean == ddiv(dsum(AsDoubles(counts)), Dbl(trials, 1))
        stddev == dsqrt(ddiv(sum_sq(AsDoubles(counts), mean),
                             Dbl(sample_denominator(trials), 1)))
    IN  [mean |-> mean, stddev |-> stddev, stderr |-> div_sqrt(stddev, trials)]

\* *t_stat = *mean_diff / se, kept as its sign and its absolute value
t_ratio(mean_diff, se) ==
    IF mean_diff.kind # "num" \/ se.kind \notin {"num", "root"} THEN [sign |-> 0, abs |-> NaN]
    ELSE IF dsquare(se).num = 0
         THEN [sign |-> Sign(mean_diff.num),
               abs |-> IF mean_diff.num = 0 THEN NaN ELSE Inf(1)]
         ELSE [sign |-> Sign(mean_diff.num),
               abs |-> dsqrt(ddiv(dmul(mean_diff, mean_diff), dsquare(se)))]

\* 2.0 * (1.0 - 0.5 * (1.0 + erf(z / sqrt(2.0)))): erf(0) = 0, erf(inf) = 1
p_value(z) ==
    IF z.kind = "nan" THEN NaN
    ELSE IF z.kind = "inf" THEN Dbl(0, 1)
    ELSE IF z.num = 0 THEN Dbl(1, 1)
    ELSE [kind |-> "erfc", num |-> dsquare(z).num, den |-> dsquare(z).den]

\* full_bench.c paired_test
paired_test(a, b) ==
    LET cnt == Min(Len(a), Len(b))
        diffs == [k \in 1..cnt |-> dsub(Dbl(a[k], 1), Dbl(b[k], 1))]
        mean_diff == ddiv(dsum(diffs), Dbl(cnt, 1))
        var == sum_sq(diffs, mean_diff)
        se == div_sqrt(dsqrt(ddiv(var, Dbl(cnt - 1, 1))), cnt)
        t_stat == t_ratio(mean_diff, se)
    IN  [mean_diff |-> mean_diff, t_stat |-> t_stat, p_approx |-> p_value(t_stat.abs)]

\* comparison counts of a trial
StatVals == {8, 10, 12}
PairVals == {8, 10}

NoStats == [mean |-> Unset, stddev |-> Unset, stderr |-> Unset]
NoPaired == [mean_diff |-> Unset, t_stat |-> [sign |-> 0, abs |-> Unset], p_approx |-> Unset]

StatInit ==
    /\ sa \in SeqsOf(StatVals, 1, MaxStatN)
    /\ sb \in {v \in SeqsOf(PairVals, 1, MaxStatN) : Len(v) = Len(sa)}
    /\ sbench = NoStats
    /\ sfull = NoStats
    /\ spaired = NoPaired
    /\ CoreIdle
    /\ RestIdleExcept("statistics")

StatFrame == UNCHANGED coreVars /\ RestFrameExcept("statistics")

\* bench.c: the comparison statistics of benchmark_sequence
stats_bench ==
    /\ sbench = NoStats
    /\ sbench' = bench_stats(sa)
    /\ UNCHANGED <<sa, sb, sfull, spaired>>
    /\ StatFrame

\* full_bench.c: compute_stats(&stats)
stats_compute ==
    /\ sfull = NoStats
    /\ sfull' = compute_stats(sa)
    /\ UNCHANGED <<sa, sb, sbench, spaired>>
    /\ StatFrame

\* full_bench.c: paired_test(&ciura_stats, &evolved_stats, ...)
stats_paired ==
    /\ spaired = NoPaired
    /\ spaired' = paired_test(sa, sb)
    /\ UNCHANGED <<sa, sb, sbench, sfull>>
    /\ StatFrame

StatNext ==
    \/ stats_bench
    \/ stats_compute
    \/ stats_paired

SpecStats == StatInit /\ [][StatNext]_vars

(***************************************************************************)
(* rng_shuffle (rng.h:67-74) on its own, on the identity array permgen     *)
(* hands it, with every value rng_uniform(rng, i + 1) can return.          *)
(***************************************************************************)
\* for (i = 0; i < N; i++) arr[i] = (int32_t)i;
Identity(len) == [k \in 1..len |-> k - 1]

\* what the out-of-bounds accesses of the build may lead to
WildOutcomes == {"crashed", "wrote_outside"}

ShufInit ==
    /\ shn \in 0..MaxShuffleN
    /\ sharr = Identity(shn)
    /\ shi = 0
    /\ shcalls = <<>>
    /\ shtouched = {}
    /\ shpc = "call"
    /\ CoreIdle
    /\ RestIdleExcept("rng_shuffle")

ShufFrame == UNCHANGED coreVars /\ RestFrameExcept("rng_shuffle")

\* for (uint64_t i = n - 1; ...   (n = 0 wraps to 2^64 - 1)
shuffle_enter ==
    /\ shpc = "call"
    /\ shi' = shn - 1
    /\ shpc' = "loop"
    /\ UNCHANGED <<shn, sharr, shcalls, shtouched>>
    /\ ShufFrame

\* mutant: the naive shuffle, j = rng_uniform(rng, n)
shuffle_step_naive ==
    /\ shpc = "loop" /\ shi > 0
    /\ \E jj \in 0..(shn - 1) :
           /\ shcalls' = Append(shcalls, [bound |-> shn, idx |-> shi, value |-> jj])
           /\ sharr' = swap(sharr, shi, jj)
           /\ shtouched' = shtouched \cup {shi, jj}
    /\ shi' = shi - 1
    /\ UNCHANGED <<shn, shpc>>
    /\ ShufFrame

\* i > 0: j = rng_uniform(rng, i + 1), a value in [0, i + 1);
\* tmp = arr[i]; arr[i] = arr[j]; arr[j] = tmp; i--
shuffle_step ==
    /\ shpc = "loop" /\ shi > 0
    /\ \E jj \in 0..shi :
           /\ shcalls' = Append(shcalls, [bound |-> shi + 1, idx |-> shi, value |-> jj])
           /\ sharr' = swap(sharr, shi, jj)
           /\ shtouched' = shtouched \cup {shi, jj}
    /\ shi' = shi - 1
    /\ UNCHANGED <<shn, shpc>>
    /\ ShufFrame

\* n = 0: i = 2^64 - 1 is not 0, so the body runs; i + 1 wraps to 0 and
\* rng_uniform(rng, 0) returns 0 without a draw; arr[i] and arr[0] are
\* outside the array of length 0
shuffle_wild ==
    /\ shpc = "loop" /\ shi < 0
    /\ shtouched' = shtouched \cup {shi, 0}
    /\ \E outcome \in WildOutcomes : shpc' = outcome
    /\ UNCHANGED <<shn, sharr, shi, shcalls>>
    /\ ShufFrame

\* i > 0 fails: rng_shuffle returns
shuffle_return ==
    /\ shpc = "loop" /\ shi = 0
    /\ shpc' = "returned"
    /\ UNCHANGED <<shn, sharr, shi, shcalls, shtouched>>
    /\ ShufFrame

ShufNext ==
    \/ shuffle_enter
    \/ shuffle_step
    \/ shuffle_wild
    \/ shuffle_return

SpecShuffle == ShufInit /\ [][ShufNext]_vars

(***************************************************************************)
(* Properties of the generators (checked under SpecGen).                   *)
(***************************************************************************)
\* C6: for every generator and every max_gap >= 1 the produced sequence is
\* non-empty, starts at 1, is strictly increasing, holds only positive
\* values, none above max_gap, and gap_sequence_valid accepts it.
C6_GeneratorsValid ==
    (generator # "none" /\ max_gap >= 1) =>
        /\ seq.num_gaps > 0
        /\ seq.num_gaps = Len(seq.gaps)
        /\ seq.gaps[1] = 1
        /\ \A k \in 2..Len(seq.gaps) : seq.gaps[k - 1] < seq.gaps[k]
        /\ \A k \in 1..Len(seq.gaps) : seq.gaps[k] > 0 /\ seq.gaps[k] <= max_gap
        /\ gap_sequence_valid(seq, TRUE).ret = 1

C6_Witness ==
    /\ generator = "gaps_evolved"
    /\ max_gap = 10000000
    /\ seq.num_gaps = 19
    /\ seq.gaps[19] = 7282039

(***************************************************************************)
(* Properties of the validator (checked under SpecValid).                  *)
(***************************************************************************)
ValidReturned == valid # -1

EmptyReason == [text |-> "Empty sequence", args |-> <<>>]

FirstGapReason(got) == [text |-> "First gap must be 1, got %lu", args |-> <<got>>]

ZeroGapReason(idx) == [text |-> "Gap %zu is zero", args |-> <<idx>>]

NotIncreasingReason(idx) ==
    [text |-> "Not strictly increasing: gaps[%zu]=%lu <= gaps[%zu]=%lu",
     args |-> <<idx, At(seq.gaps, idx), idx - 1, At(seq.gaps, idx - 1)>>]

\* the C indices idx >= 1 at which the sequence holds a zero gap or a gap
\* not greater than the one before it
BadIndices ==
    {idx \in 1..(seq.num_gaps - 1) :
        At(seq.gaps, idx) = 0 \/ At(seq.gaps, idx) <= At(seq.gaps, idx - 1)}

Least(S) == CHOOSE x \in S : \A y \in S : x <= y

\* C7: gap_sequence_valid returns 1 exactly when the sequence is non-empty,
\* starts with 1, holds only positive gaps and is strictly increasing, and 0
\* otherwise; the hand-built [1,4,10,23] is accepted.
C7_ValidIffInvariants ==
    ValidReturned =>
        /\ valid \in {0, 1}
        /\ valid = 1 <=> SeqInvariants(seq.gaps)
        /\ seq.gaps = <<1, 4, 10, 23>> => valid = 1

C7_Witness ==
    /\ valid = 1
    /\ seq.gaps = <<1, 4, 10, 23>>

\* C8 as stated: on rejection with a non-NULL reason, every violation the
\* sequence has is the one the reason names: the empty sequence, a first gap
\* other than 1, each zero gap with its index, each non-increasing pair.
C8_EveryViolationNamed ==
    (valid = 0 /\ hasReason) =>
        /\ seq.num_gaps = 0 => reason = EmptyReason
        /\ (seq.num_gaps > 0 /\ At(seq.gaps, 0) # 1) =>
               reason = FirstGapReason(At(seq.gaps, 0))
        /\ \A idx \in 0..(seq.num_gaps - 1) :
               At(seq.gaps, idx) = 0 => reason = ZeroGapReason(idx)
        /\ \A idx \in 1..(seq.num_gaps - 1) :
               At(seq.gaps, idx) <= At(seq.gaps, idx - 1) =>
                   reason = NotIncreasingReason(idx)

\* C8 amended: on rejection with a non-NULL reason, the reason names the
\* first violation in the validator's order of checks and no other: the
\* empty sequence; else a first gap other than 1 (also when that gap is 0);
\* else, at the least index idx >= 1 holding a zero gap or a gap not greater
\* than its predecessor, the zero gap with idx if gaps[idx] = 0 and the
\* non-increasing pair (idx, idx-1) otherwise.  With reason = NULL nothing
\* is written.
C8_FirstViolationNamed ==
    /\ (valid = 0 /\ hasReason) =>
           IF seq.num_gaps = 0 THEN reason = EmptyReason
           ELSE IF At(seq.gaps, 0) # 1 THEN reason = FirstGapReason(At(seq.gaps, 0))
           ELSE /\ BadIndices # {}
                /\ LET idx == Least(BadIndices)
                   IN IF At(seq.gaps, idx) = 0
                      THEN reason = ZeroGapReason(idx)
                      ELSE reason = NotIncreasingReason(idx)
    /\ (valid = 1 \/ ~hasReason) => reason = Unwritten

C8_Witness ==
    /\ valid = 0
    /\ hasReason
    /\ seq.gaps = <<1, 2, 0, 0>>
    /\ reason = ZeroGapReason(2)

(***************************************************************************)
(* Properties of the sort engine (checked under SpecSort).                 *)
(***************************************************************************)
Returned(f) == f \in returned

BothReturned == returned = Fns

\* sum of (len - g) over the stored gaps g < len: the number of insertions
\* (i, gap) the engine performs on an array of length len
RECURSIVE Insertions(_, _)
Insertions(gs, len) ==
    IF gs = <<>> THEN 0
    ELSE (IF Head(gs) < len THEN len - Head(gs) ELSE 0) + Insertions(Tail(gs), len)

\* C1: with a gap sequence satisfying the invariants, shellsort and
\* shellsort_stats return with the array in non-decreasing order and holding
\* the same multiset of values as the input.
C1_SortsAndPermutes ==
    \A f \in returned :
        SeqInvariants(seq.gaps) =>
            /\ IsAscending(ret[f].arr)
            /\ BagOf(ret[f].arr) = BagOf(input)

C1_Witness ==
    /\ BothReturned
    /\ SeqInvariants(seq.gaps)
    /\ seq.num_gaps >= 2
    /\ n >= 4
    /\ \E k \in 1..(n - 1) : input[k] = input[k + 1]
    /\ ~IsAscending(input)
    /\ \A f \in Fns : IsAscending(ret[f].arr)

\* C2: on the reverse-sorted array of length len with the gap sequence [1],
\* both functions return len(len-1)/2 comparisons; for length 5 that is 10.
C2_ReverseSortedComparisons ==
    \A f \in returned :
        /\ \A len \in 0..MaxDesc :
               (input = Descending(len) /\ seq.gaps = <<1>>) =>
                   ret[f].comparisons = (len * (len - 1)) \div 2
        /\ (input = <<5, 4, 3, 2, 1>> /\ seq.gaps = <<1>>) =>
               ret[f].comparisons = 10

C2_Witness ==
    /\ BothReturned
    /\ input = <<5, 4, 3, 2, 1>>
    /\ seq.gaps = <<1>>
    /\ \A f \in Fns : ret[f].comparisons = 10

\* C3 as stated: on the reverse-sorted array of length 5 with the gap
\* sequence [1], shellsort_stats returns moves = 15.
C3_Moves15 ==
    (Returned("shellsort_stats") /\ input = <<5, 4, 3, 2, 1>> /\ seq.gaps = <<1>>) =>
        ret["shellsort_stats"].moves = 15

\* C3 amended: on the reverse-sorted array of length 5 with the gap sequence
\* [1], shellsort_stats returns moves = 14: the 4 final placements of the
\* insertions i = 1..4 plus 10 shifts (len - 1 + len(len-1)/2 for length
\* len >= 1).
C3_Moves14 ==
    Returned("shellsort_stats") =>
        /\ (input = <<5, 4, 3, 2, 1>> /\ seq.gaps = <<1>>) =>
               ret["shellsort_stats"].moves = 4 + 10
        /\ \A len \in 1..MaxDesc :
               (input = Descending(len) /\ seq.gaps = <<1>>) =>
                   ret["shellsort_stats"].moves = (len - 1) + (len * (len - 1)) \div 2

C3_Witness ==
    /\ Returned("shellsort_stats")
    /\ input = <<5, 4, 3, 2, 1>>
    /\ seq.gaps = <<1>>
    /\ ret["shellsort_stats"].moves = 14
    /\ ret["shellsort_stats"].arr = <<1, 2, 3, 4, 5>>

\* C4: on a non-decreasing array and a valid gap sequence every insertion
\* (i, gap) makes one comparison and no shift: the comparison count is the
\* sum over the applied gaps g < n of (n - g), the only writes are the
\* placements, one per insertion, and none of them changes the array.
C4_SortedInput ==
    \A f \in returned :
        (IsAscending(input) /\ SeqInvariants(seq.gaps)) =>
            /\ ret[f].comparisons = Insertions(seq.gaps, n)
            /\ Len(ret[f].trace) = Insertions(seq.gaps, n)
            /\ \A k \in 1..Len(ret[f].trace) : ret[f].trace[k] = input
            /\ ret[f].arr = input
            /\ f = "shellsort_stats" => ret[f].moves = Insertions(seq.gaps, n)

C4_Witness ==
    /\ BothReturned
    /\ IsAscending(input)
    /\ SeqInvariants(seq.gaps)
    /\ n >= 3
    /\ \E k \in 1..(n - 1) : input[k] = input[k + 1]
    /\ \E k \in 1..seq.num_gaps : seq.gaps[k] >= n
    /\ \E k \in 2..seq.num_gaps : seq.gaps[k] < n
    /\ \A f \in Fns : ret[f].comparisons = Insertions(seq.gaps, n)

\* C5: from equal inputs and any gap sequence (valid or not) shellsort and
\* shellsort_stats make the same sequence of array writes, end with the same
\* array and return the same comparison count.
C5_SameSorting ==
    BothReturned =>
        /\ ret["shellsort"].trace = ret["shellsort_stats"].trace
        /\ ret["shellsort"].arr = ret["shellsort_stats"].arr
        /\ ret["shellsort"].comparisons = ret["shellsort_stats"].comparisons

C5_Witness ==
    /\ BothReturned
    /\ seq.num_gaps >= 2
    /\ ret["shellsort"].arr # input
    /\ Len(ret["shellsort"].trace) > n
    /\ ret["shellsort"].comparisons >= n
    /\ ret["shellsort"].trace = ret["shellsort_stats"].trace

(***************************************************************************)
(* Properties of the drivers (checked under SpecDrivers).                  *)
(***************************************************************************)
Accepts(sq) == gap_sequence_valid(sq, TRUE).ret = 1

\* what bench.c printed about the sequences of size index s, in order
EntriesFor(s) == SelectSeq(out, LAMBDA e : e.si = s /\ e.kind \in {"skip", "row"})

Rows == SelectSeq(out, LAMBDA e : e.kind = "row")

\* C9: in bench.c main a sequence gap_sequence_valid rejects is never
\* handed to benchmark_sequence and gets no result row, its reason is
\* printed, and the run goes on: at the end every size was attempted, and
\* for every size that loaded each of the NUM_BASELINES sequences has, in
\* order, either its result row (it is valid and was benchmarked) or its
\* skip line carrying the validator's reason (it is invalid).
C9_SkipAndContinue ==
    driver = "bench" =>
        /\ \A k \in 1..Len(benchmarked) : Accepts(benchmarked[k].seq)
        /\ \A k \in 1..Len(out) :
               /\ out[k].kind = "row" => Accepts(out[k].seq)
               /\ out[k].kind = "skip" =>
                      /\ ~Accepts(out[k].seq)
                      /\ out[k].reason = gap_sequence_valid(out[k].seq, TRUE).reason
                      /\ out[k].reason # Unwritten
        /\ Len(Rows) = Len(benchmarked)
        /\ \A k \in 1..Len(Rows) :
               benchmarked[k] = [si |-> Rows[k].si, i |-> Rows[k].i, seq |-> Rows[k].seq]
        /\ dpc = "done" =>
               /\ Len(loads) = Len(sizes)
               /\ \A k \in 1..Len(loads) :
                      /\ loads[k].si = k - 1
                      /\ loads[k].ok =>
                             /\ Len(EntriesFor(k - 1)) = NUM_BASELINES
                             /\ \A m \in 1..NUM_BASELINES :
                                    EntriesFor(k - 1)[m].i = m - 1

\* a finished run of bench.c that skipped a sequence, benchmarked a later
\* sequence of the same size and benchmarked sequences of a later size
C9_Witness ==
    /\ driver = "bench"
    /\ dpc = "done"
    /\ \E a, b, c \in 1..Len(out) :
           /\ out[a].kind = "skip"
           /\ out[b].kind = "row" /\ out[b].si = out[a].si /\ out[b].i > out[a].i
           /\ out[c].kind = "row" /\ out[c].si > out[a].si

\* C10: in every driver a sequence reaches shellsort or shellsort_stats
\* only after gap_sequence_valid returned 1 for that exact sequence.
C10_ValidatedBeforeEngine ==
    \A c \in engineCalls : c.seq \in validated

\* a driver other than bench.c has sorted with a sequence the validator
\* was never called on
C10_UnvalidatedCall ==
    /\ driver # "bench"
    /\ \E c \in engineCalls : c.seq \notin validated

(***************************************************************************)
(* Properties of permgen (checked under SpecPerm).                         *)
(***************************************************************************)
\* the complete rows of N elements in the data of a .bin file
RowsOf(data, N) ==
    [k \in 1..(Len(data) \div N) |-> SubSeq(data, (k - 1) * N + 1, k * N)]

\* each value of 0..N-1 occurs exactly once among exactly N entries
IsPermutation(row, N) ==
    /\ Len(row) = N
    /\ \A v \in 0..(N - 1) : Cardinality({k \in 1..N : row[k] = v}) = 1

\* the .bin files written so far: those of finished runs and the current one
BinFiles == {files[k].bin : k \in 1..Len(files)} \cup {bin_file}

\* C11: for N >= 1 every row generate_permutations has written is a
\* permutation of 0..N-1, and a run that returns 0 has written exactly
\* trials rows.
C11_RowsArePermutations ==
    cfg.N >= 1 =>
        /\ \A f \in BinFiles :
               \A k \in 1..(Len(f.data) \div cfg.N) :
                   IsPermutation(RowsOf(f.data, cfg.N)[k], cfg.N)
        /\ (gpc = "returned" /\ gret = 0) => Len(bin_file.data) = cfg.trials * cfg.N

\* a run that returned 0 after writing two different rows of the largest
\* size, the first of them not the identity
C11_Witness ==
    /\ gpc = "returned" /\ gret = 0
    /\ cfg.N = MaxPermN /\ cfg.trials >= 2
    /\ RowsOf(bin_file.data, cfg.N)[1] # RowsOf(bin_file.data, cfg.N)[2]
    /\ RowsOf(bin_file.data, cfg.N)[1] # [k \in 1..cfg.N |-> k - 1]

\* row t as a function of (master_seed, N, t) alone
ExpectedRow ==
    [master_seed \in MasterSeeds, N \in 1..MaxPermN, t \in 0..(MaxPermTrials - 1) |->
        rng_shuffle(rng_seed(derive_seed(master_seed, N, t)), [k \in 1..N |-> k - 1], N)]

\* C12: generation is deterministic.  The header is (MAGIC, N, trials,
\* master_seed); the k-th row written is the function ExpectedRow of
\* (master_seed, N, k) alone, whatever the buffer and the generator held
\* before, and rows are written in increasing trial order; two runs with
\* the same (master_seed, N, trials) that both return 0 leave identical
\* files.
C12_Deterministic ==
    /\ \A f \in BinFiles :
           /\ f.header # <<>> => f.header[1] = MAGIC /\ f.header[2] = cfg.N
                                 /\ f.header[4] = cfg.master_seed
           /\ cfg.N >= 1 =>
                  \A k \in 1..(Len(f.data) \div cfg.N) :
                      RowsOf(f.data, cfg.N)[k] = ExpectedRow[cfg.master_seed, cfg.N, k - 1]
    /\ gpc \in {"loop", "seed", "shuffle", "write"} => Len(bin_file.data) = gt * cfg.N
    /\ (run = 2 /\ gpc = "returned" /\ gret = 0 /\ files[1].ret = 0
            /\ files[1].bin.header[3] = cfg.trials) =>
           bin_file = files[1].bin

\* two finished runs with the same inputs, both returning 0, with at least
\* two rows of at least three elements
C12_Witness ==
    /\ run = 2 /\ gpc = "returned" /\ gret = 0
    /\ files[1].ret = 0
    /\ files[1].bin.header[3] = cfg.trials
    /\ cfg.trials >= 2 /\ cfg.N >= 3
    /\ bin_file = files[1].bin

\* the value of a word of bits
WordValue(word) == word_mod(word, 2, pow2(WordBits), 1)

\* the raw words rng_uniform accepts under a threshold
AcceptedBy == [th \in Words |-> {r \in Words : word_ge(Word(r), 2, th)}]

\* what rng_uniform returns for an accepted raw word
Residue == [nn \in Words \ {0}, r \in Words |-> word_mod(Word(r), 2, nn, 1)]

\* the accepted raw words returned as v
ImageOf(nn, th, v) == {r \in AcceptedBy[th] : Residue[nn, r] = v}

\* every residue 0..n-1 is the image of the same number of accepted words
Balanced ==
    [nn \in Words \ {0}, th \in Words |->
        /\ Cardinality(AcceptedBy[th]) % nn = 0
        /\ \A v \in 0..(nn - 1) :
              Cardinality(ImageOf(nn, th, v)) = Cardinality(AcceptedBy[th]) \div nn]

\* C13: for n > 0 rng_uniform returns a value in [0, n) without modulo bias:
\* the threshold is 2^w mod n (computed as -n % n on w-bit words), a raw
\* word below it is rejected and one at or above it is returned modulo n,
\* the number of accepted raw words is a multiple of n, and every residue
\* 0..n-1 is the image of the same number of accepted raw words.
C13_Unbiased ==
    (upc \in {"loop", "returned"} /\ un > 0) =>
        /\ uthreshold = ((pow2(WordBits) - un) % pow2(WordBits)) % un
        /\ uthreshold = pow2(WordBits) % un
        /\ Balanced[un, uthreshold]
        /\ (upc = "loop" /\ udraws > 0) => WordValue(uraw) < pow2(WordBits) % un
        /\ upc = "returned" =>
              /\ WordValue(uraw) >= pow2(WordBits) % un
              /\ uret = WordValue(uraw) % un
              /\ uret \in 0..(un - 1)

\* n = 5 (2^w mod 5 is 2 for w = 5, 4 for w = 6): a raw word below the
\* threshold was rejected and the next one returned as residue 4
C13_Witness ==
    /\ upc = "returned"
    /\ un = 5
    /\ udraws = 2
    /\ uret = 4

\* C14: every load_dataset returns success only if the file's magic is the
\* format magic, the stored N is the requested N, and the whole header and
\* all trials * N elements were read; it never hands back a buffer that was
\* only partly filled from the file.
C14_LoadersReject ==
    (lpc = "returned" /\ lret = 0) =>
        /\ lfile.present
        /\ lfile.fields = 4
        /\ lfile.magic = MAGIC
        /\ lfile.N = lreq
        /\ lds = [N |-> lfile.N, trials |-> lfile.trials]
        /\ lread = lfile.N * lfile.trials
        /\ lread = Len(ldata)

\* validate.c's loader, asked for N = 1, returns success on a file that
\* stores N = 2 and holds one element of the four its header announces
C14_ShortReadAccepted ==
    /\ lpc = "returned"
    /\ lret = 0
    /\ loader = "validate"
    /\ lreq = 1
    /\ lfile.fields = 4
    /\ lfile.N = 2
    /\ lread = 1
    /\ Len(ldata) = 4

\* the trials of the dataset
AllTrials == 1..ttrials

\* C15: when an allocation fails during a benchmark (the per-trial arrays
\* or the scratch array of a trial), no row is reported for it: a reported
\* row comes from a run in which every trial's counts were produced by a
\* completed sort.
C15_NoRowFromIncompleteRun ==
    (Len(treport) > 0) =>
        /\ tarrays # "null"
        /\ tdone = AllTrials
        /\ treport[1] = [total |-> SumSeq(tcounts), trials |-> ttrials]

\* validate.c: a trial was skipped for want of memory and the mean of the
\* remaining trials, divided by all trials, is reported
C15_MeanOverSkippedTrial ==
    /\ tprog = "validate"
    /\ ttrials = 2
    /\ tdone = {1}
    /\ treport = <<[total |-> tcounts[1], trials |-> 2]>>

SlotArrays == {"comp_counts", "move_counts", "runtimes_us"}

\* C17: in the parallel trial loop, under every interleaving, the worker of
\* trial t writes only the scratch array of t, slot t of the per-trial
\* arrays and its own copy of the reduction variable; no location is
\* written by two trials except a reduction copy, which only its own
\* thread writes; the dataset and the gap sequence are never written.
C17_TrialsWriteDisjointly ==
    /\ \A a \in twrites :
          \/ a.loc = <<"arr", a.trial>>
          \/ a.loc[1] \in SlotArrays /\ a.loc[2] = a.trial
          \/ a.loc = <<"total", a.worker>>
    /\ \A a, b \in twrites :
          (a.loc = b.loc /\ a.trial # b.trial) =>
              (a.loc[1] = "total" /\ a.worker = b.worker)
    /\ \A a, b \in twrites : (a.loc = b.loc) => (a.worker = b.worker)

\* bench.c with two threads and three trials: both threads have just
\* stored the counts of their trials, thread 1 of its second one
C17_Witness ==
    /\ tprog = "bench"
    /\ tthreads = 2
    /\ wpc = <<"free", "free">>
    /\ wt = <<2, 3>>
    /\ tdone = {1, 2, 3}
    /\ Cardinality(twrites) = 12

\* the numbers printed
Reported == {rout[k] : k \in 1..Len(rout)}

\* C16: a failed load skips only its size: every size that loaded has its
\* rows, and no number reported (row, total, summary, improvement) is
\* computed from the data of a size whose load failed.
C16_FailedSizeNotReported ==
    /\ \A l \in Reported : l.uses \cap rfailed = {}
    /\ rpc = "done" =>
          \A s \in SizeIdx \ rfailed : \E l \in Reported : l.kind = "row" /\ l.si = s

\* all_baselines_bench.c: size 1 failed to load, the others loaded, and the
\* summary total of a sequence is read from all four columns of results
C16_SummaryFromFailedSize ==
    /\ rprog = "all_baselines_bench"
    /\ rpc = "done"
    /\ rfailed = {1}
    /\ \E l \in Reported : l.kind = "summary" /\ 1 \in l.uses

\* the percentage comparisons printed: lines that compare two means
Percentages == {l \in Reported : l.kind # "load_failed" /\ l.baseline # 0}

\* C20: every percentage comparison reported is
\* (baseline_mean - candidate_mean) / baseline_mean * 100: its denominator
\* is the baseline's mean, and it is positive exactly when the candidate
\* used fewer comparisons.
C20_RelativeToBaseline ==
    \A l \in Percentages :
        /\ l.den = l.baseline
        /\ l.num = (l.baseline - l.candidate) * 100
        /\ (l.num * l.den > 0) <=> (l.candidate < l.baseline)

\* all_baselines_bench.c: the line of baseline 1 (mean 111) against the
\* evolved sequence (mean 100) is 11 / 100 * 100, relative to the
\* candidate's mean
C20_RelativeToCandidate ==
    \E l \in Percentages :
        /\ rprog = "all_baselines_bench"
        /\ l.kind = "row" /\ l.i = 1
        /\ l.baseline = 111 /\ l.candidate = 100
        /\ l.num = 1100 /\ l.den = 100

\* the sum of squared deviations of a vector from its mean, times the
\* square of its length: sum (cnt * x[k] - total)^2
ScaledSquares(xs) ==
    SumSeq([k \in 1..Len(xs) |->
        (Len(xs) * xs[k] - SumSeq(xs)) * (Len(xs) * xs[k] - SumSeq(xs))])

\* the sum of squared deviations as a fraction
SquaredDeviations(xs) == Dbl(ScaledSquares(xs), Len(xs) * Len(xs))

\* C18: bench.c reports stddev^2 = (squared deviations) / n, full_bench.c
\* compute_stats stddev^2 = (squared deviations) / (n - 1); in both
\* stderr = stddev / sqrt(n).  [10,10,10,10] gives mean 10 and stddev 0 in
\* both; [8,10,12] gives mean 10, sample variance 4 (stddev 2) and
\* population variance 8/3.
C18_VarianceDenominators ==
    /\ sbench # NoStats =>
          /\ sbench.mean = Dbl(SumSeq(sa), Len(sa))
          /\ dsquare(sbench.stddev) = ddiv(SquaredDeviations(sa), Dbl(Len(sa), 1))
          /\ dsquare(sbench.stderr) = ddiv(dsquare(sbench.stddev), Dbl(Len(sa), 1))
          /\ sa = <<10, 10, 10, 10>> =>
                (sbench.mean = Dbl(10, 1) /\ sbench.stddev = Dbl(0, 1))
          /\ sa = <<8, 10, 12>> =>
                (sbench.mean = Dbl(10, 1) /\ dsquare(sbench.stddev) = Dbl(8, 3))
    /\ (sfull # NoStats /\ Len(sa) >= 2) =>
          /\ sfull.mean = Dbl(SumSeq(sa), Len(sa))
          /\ dsquare(sfull.stddev) = ddiv(SquaredDeviations(sa), Dbl(Len(sa) - 1, 1))
          /\ dsquare(sfull.stderr) = ddiv(dsquare(sfull.stddev), Dbl(Len(sa), 1))
          /\ sa = <<10, 10, 10, 10>> =>
                (sfull.mean = Dbl(10, 1) /\ sfull.stddev = Dbl(0, 1))
          /\ sa = <<8, 10, 12>> =>
                (sfull.mean = Dbl(10, 1) /\ sfull.stddev = Dbl(2, 1))

\* both aggregations have run on [8,10,12]: stddev 2 from compute_stats,
\* the root of 8/3 from bench.c
C18_Witness ==
    /\ sa = <<8, 10, 12>>
    /\ sfull.stddev = Dbl(2, 1)
    /\ sbench.stddev = [kind |-> "root", num |-> 8, den |-> 3]

\* C19: paired_test on two identical count vectors of length n >= 2 yields
\* mean_diff = 0 and p_approx = 1.0.
C19_IdenticalVectors ==
    (spaired # NoPaired /\ sa = sb /\ Len(sa) >= 2) =>
        /\ spaired.mean_diff = Dbl(0, 1)
        /\ spaired.p_approx = Dbl(1, 1)

\* paired_test on [8,10] and [8,10]: mean_diff is 0, se is 0, t_stat is
\* 0/0 and p_approx is NaN
C19_NaNForIdentical ==
    /\ sa = <<8, 10>>
    /\ sb = <<8, 10>>
    /\ spaired.mean_diff = Dbl(0, 1)
    /\ spaired.t_stat.abs = NaN
    /\ spaired.p_approx = NaN

(***************************************************************************)
(* Order of the passes, gap-sortedness and termination of the sort engine  *)
(* (checked under SpecSort and SpecSortLive).                              *)
(***************************************************************************)
\* the engine is inside the pass of the gap stored at index g - 1
InPass == pc \in {"for", "while", "place"}

\* the step touches the array or a counter
Touches ==
    \/ arr' # arr
    \/ trace' # trace
    \/ comparisons' # comparisons
    \/ moves' # moves

\* what one step of a running call may do to the gap index
PassOrderStep ==
    \* the call starts at the last stored gap
    /\ (pc = "idle" /\ pc' # "idle") => (g' = seq.num_gaps /\ pc' = "outer")
    \* a pass works with the gap stored at index g - 1, which is below n
    /\ InPass' => (g' > 0 /\ gap' = At(seq.gaps, g' - 1) /\ gap' < n)
    \* a pass starts from the loop head, at the gap of the current index,
    \* with its first insertion
    /\ (~InPass /\ InPass') => (pc = "outer" /\ g' = g /\ i' = gap' /\ pc' = "for")
    \* inside a pass the index stands still
    /\ (InPass /\ InPass') => (g' = g /\ gap' = gap)
    \* a pass is left only when all its insertions are done, for the next
    \* lower index
    /\ (InPass /\ ~InPass') => (pc = "for" /\ i = n /\ g' = g - 1 /\ pc' = "outer")
    \* a gap >= n is skipped: the next lower index, nothing touched
    /\ (pc = "outer" /\ g > 0 /\ At(seq.gaps, g - 1) >= n) =>
           (g' = g - 1 /\ pc' = "outer" /\ ~Touches)
    \* the array and the counters are touched inside a pass only
    /\ (Touches /\ pc # "idle" /\ pc' # "idle") => (InPass /\ gap < n)
    \* the call returns when index 0 has been passed
    /\ (pc # "idle" /\ pc' = "idle") => (pc = "outer" /\ g = 0)

\* C21: the engine runs the passes in order of decreasing index, from
\* gaps[num_gaps-1] down to gaps[0], each pass finishing all its insertions
\* before the next index is taken; a gap >= n is skipped with no comparison,
\* no move and no write to the array.
C21_PassOrder == [][PassOrderStep]_vars

\* a gap >= n has just been skipped, and the next gap will be applied
C21_Witness ==
    /\ fn = "shellsort_stats" /\ pc = "outer"
    /\ g > 0 /\ g < seq.num_gaps
    /\ At(seq.gaps, g) >= n
    /\ gap = At(seq.gaps, g)
    /\ At(seq.gaps, g - 1) < n
    /\ n >= 2
    /\ arr = input /\ comparisons = 0 /\ moves = 0 /\ trace = <<>>

\* the insertions (i, gap) completed so far in the running call, from the
\* position of the loops: those of the passes done (indices above g) and
\* those of the current pass before i
InsertionsDone ==
    Insertions(SubSeq(seq.gaps, g + 1, seq.num_gaps), n)
        + (IF InPass THEN i - gap ELSE 0)

\* the shift assignments made so far: the array writes that were not the
\* final placement of a completed insertion
ShiftsDone == Len(trace) - InsertionsDone

\* the step is the assignment arr[j] = arr[j - gap] of shellsort_stats
IsShift == fn = "shellsort_stats" /\ pc = "while" /\ j >= gap /\ At(arr, j - gap) > temp

\* the step is the assignment arr[j] = temp of shellsort_stats
IsPlacement == fn = "shellsort_stats" /\ pc = "place"

MovesCounted ==
    /\ fn = "shellsort_stats" => moves = ShiftsDone + InsertionsDone
    /\ Returned("shellsort_stats") =>
           /\ ret["shellsort_stats"].moves = Len(ret["shellsort_stats"].trace)
           /\ ret["shellsort_stats"].moves >= Insertions(seq.gaps, n)

MovesStep ==
    /\ IsShift =>
           /\ arr' = Put(arr, j, At(arr, j - gap))
           /\ moves' = moves + 1
           /\ ShiftsDone' = ShiftsDone + 1
           /\ InsertionsDone' = InsertionsDone
    \* one placement per insertion, also when j = i and the array stays as
    \* it is
    /\ IsPlacement =>
           /\ arr' = Put(arr, j, temp)
           /\ moves' = moves + 1
           /\ ShiftsDone' = ShiftsDone
           /\ InsertionsDone' = InsertionsDone + 1
           /\ gap < n /\ gap <= i /\ i < n
    /\ (fn = "shellsort_stats" /\ fn' = "shellsort_stats"
            /\ ~IsShift /\ ~IsPlacement) =>
           (moves' = moves /\ arr' = arr /\ Len(trace') = Len(trace))
    \* return stats;
    /\ (fn = "shellsort_stats" /\ fn' = "none") =>
           /\ InsertionsDone = Insertions(seq.gaps, n)
           /\ ret'["shellsort_stats"].moves = ShiftsDone + Insertions(seq.gaps, n)
    /\ MovesCounted'

\* C22: the moves of shellsort_stats are the shift assignments
\* arr[j] = arr[j-gap] plus the final placements arr[j] = temp, one placement
\* per insertion (i, gap) with gap < n and gap <= i < n even when the element
\* is written back to its own index: moves = shifts + the sum over the
\* applied gaps g of (n - g).
C22_MovesAreShiftsPlusPlacements == [][MovesStep]_vars

\* a returned call with shifts, with a placement that left the array as it
\* was, and with a skipped gap
C22_Witness ==
    /\ Returned("shellsort_stats")
    /\ n >= 3
    /\ \E k \in 1..seq.num_gaps : seq.gaps[k] >= n
    /\ \E k \in 1..seq.num_gaps : seq.gaps[k] < n /\ seq.gaps[k] > 1
    /\ Insertions(seq.gaps, n) > 0
    /\ ret["shellsort_stats"].moves > Insertions(seq.gaps, n)
    /\ \E k \in 2..Len(ret["shellsort_stats"].trace) :
           ret["shellsort_stats"].trace[k] = ret["shellsort_stats"].trace[k - 1]
    /\ ret["shellsort_stats"].moves = Len(ret["shellsort_stats"].trace)

\* a[k - h] <= a[k] for every k in h..Len(a)-1
GapSorted(a, h) == \A k \in h..(Len(a) - 1) : At(a, k - h) <= At(a, k)

\* the gaps whose pass is over: those stored at the indices above idx that
\* are below the array length
PassedGaps(idx) == {seq.gaps[k] : k \in {m \in (idx + 1)..seq.num_gaps : seq.gaps[m] < n}}

\* C25: right after the pass for a gap h < n the array is h-sorted
\* (arr[k-h] <= arr[k] for k in h..n-1), and it is still h-sorted after every
\* later pass, up to the return.
C25_GapSortedKept ==
    /\ (fn # "none" /\ pc = "outer") => \A h \in PassedGaps(g) : GapSorted(arr, h)
    /\ \A f \in returned : \A h \in PassedGaps(0) : GapSorted(ret[f].arr, h)

\* two passes are over and one is to come; the input was sorted for neither
\* gap, the array is sorted for both and not yet in order
C25_Witness ==
    /\ fn = "shellsort_stats" /\ pc = "outer"
    /\ g = 1 /\ seq.num_gaps = 3
    /\ seq.gaps[3] < n /\ seq.gaps[2] < seq.gaps[3]
    /\ ~GapSorted(input, seq.gaps[3])
    /\ ~GapSorted(input, seq.gaps[2])
    /\ GapSorted(arr, seq.gaps[3])
    /\ GapSorted(arr, seq.gaps[2])
    /\ ~IsAscending(arr)

\* the array elements the next step of the running call reads or writes
Accessed ==
    IF fn = "none" THEN {}
    ELSE IF pc = "for" /\ i < n THEN {i}
    ELSE IF pc = "while" /\ j >= gap THEN {j - gap, j}
    ELSE IF pc = "place" THEN {j}
    ELSE {}

\* the elements of seq->gaps the next step of the running call reads
GapsRead == IF fn # "none" /\ pc = "outer" /\ g > 0 THEN {g - 1} ELSE {}

IndexSafe ==
    /\ Accessed \subseteq 0..(n - 1)
    /\ GapsRead \subseteq 0..(seq.num_gaps - 1)
    /\ seq.num_gaps <= MAX_GAPS

\* C29: shellsort and shellsort_stats return for every n >= 0 and every gap
\* sequence of at most MAX_GAPS gaps, valid or not (zero gap, duplicates,
\* decreasing gaps); they read and write the array at the indices 0..n-1
\* only, and leave the gap sequence as it was.
C29_Terminates ==
    /\ []IndexSafe
    /\ [][seq' = seq]_vars
    /\ <>BothReturned

\* both functions have returned from a sequence with a zero gap and a
\* repeated gap, on an array of three elements or more
C29_Witness ==
    /\ BothReturned
    /\ n >= 3
    /\ ~SeqInvariants(seq.gaps)
    /\ \E k \in 1..seq.num_gaps : seq.gaps[k] = 0
    /\ ret["shellsort"].comparisons >= n

(***************************************************************************)
(* Properties of rng_shuffle (checked under SpecShuffle).                  *)
(***************************************************************************)
\* the results the len - 1 calls of rng_uniform can have, in call order:
\* call k has the bound len - k + 1
DrawSeqs(len) == {d \in [1..(len - 1) -> 0..(len - 1)] : \A k \in 1..(len - 1) : d[k] <= len - k}

\* the arrangement reached from a by the swaps of the draws d from call k on
RECURSIVE Shuffled(_, _, _)
Shuffled(a, d, k) ==
    IF k > Len(d) THEN a
    ELSE Shuffled(swap(a, Len(a) - k, d[k]), d, k + 1)

\* the arrangements of 0..len-1
PermsOf(len) == {p \in [1..len -> 0..(len - 1)] : \A x, y \in 1..len : p[x] = p[y] => x = y}

\* every arrangement is reached, and by one draw sequence only: the
\* arrangements reached are all the permutations and are as many as the
\* draw sequences
ShuffleBijective ==
    [len \in 1..MaxShuffleN |->
        LET reached == {Shuffled(Identity(len), d, 1) : d \in DrawSeqs(len)}
        IN  /\ reached = PermsOf(len)
            /\ Cardinality(reached) = Cardinality(DrawSeqs(len))]

\* C23: for n >= 1 rng_shuffle makes exactly n - 1 calls of rng_uniform, for
\* i = n-1 down to 1 with the bound i + 1, and swaps arr[i] with arr[j],
\* j <= i; the map from the sequences of results to the arrangements is a
\* bijection onto the n! permutations.
C23_FisherYates ==
    (shn >= 1 /\ shpc = "returned") =>
        /\ Len(shcalls) = shn - 1
        /\ \A k \in 1..(shn - 1) :
               /\ shcalls[k].idx = shn - k
               /\ shcalls[k].bound = shcalls[k].idx + 1
               /\ shcalls[k].value <= shcalls[k].idx
        /\ [k \in 1..(shn - 1) |-> shcalls[k].value] \in DrawSeqs(shn)
        /\ sharr = Shuffled(Identity(shn), [k \in 1..(shn - 1) |-> shcalls[k].value], 1)
        /\ sharr \in PermsOf(shn)
        /\ ShuffleBijective[shn]

\* a shuffle of four elements that moved every one of them
C23_Witness ==
    /\ shpc = "returned"
    /\ shn = 4
    /\ Len(shcalls) = 3
    /\ \A k \in 1..4 : sharr[k] # k - 1
    /\ shcalls[3].value = 0

\* C27: on an array of length 0 or 1 rng_shuffle makes no call of
\* rng_uniform that draws, reads and writes no element of the array (and no
\* memory outside it), and returns with the array as it was.
C27_ShortShuffleSafe ==
    shn <= 1 =>
        /\ shpc \notin WildOutcomes
        /\ shtouched = {}
        /\ shcalls = <<>>
        /\ sharr = Identity(shn)

\* n = 0: the loop body has run with i = 2^64 - 1 and has accessed arr[i]
\* and arr[0], both outside the array
C27_WildAccess ==
    /\ shn = 0
    /\ shpc \in WildOutcomes
    /\ shtouched = {-1, 0}

\* n = 1: the call has returned without a draw and without an access
C27_OneElement ==
    /\ shn = 1
    /\ shpc = "returned"
    /\ shtouched = {}
    /\ shcalls = <<>>

(***************************************************************************)
(* The generators with a literal base list (checked under SpecGen).        *)
(***************************************************************************)
LiteralGenerators == {"gaps_ciura", "gaps_ciura_extended", "gaps_evolved"}

\* the literal list of the generator called
BaseList ==
    IF generator = "gaps_ciura" THEN ciura_base
    ELSE IF generator = "gaps_ciura_extended" THEN ciura_ext_base
    ELSE evolved_gaps

Members(list) == {list[k] : k \in 1..Len(list)}

\* C24: for gaps_ciura, gaps_ciura_extended and gaps_evolved and every
\* max_gap >= 1 the output starts with the literals that are <= max_gap, and
\* the 2.25-fold extension supplies gaps beyond the last literal only: every
\* produced gap that does not exceed the last literal is in the literal list.
C24_ExtensionBeyondLiterals ==
    (generator \in LiteralGenerators /\ max_gap >= 1) =>
        /\ \A k \in 1..Len(BaseList) :
               BaseList[k] <= max_gap =>
                   (k <= seq.num_gaps /\ seq.gaps[k] = BaseList[k])
        /\ \A k \in 1..seq.num_gaps :
               seq.gaps[k] <= BaseList[Len(BaseList)] =>
                   seq.gaps[k] \in Members(BaseList)

\* gaps_ciura(max_gap = 2) is [1, 2]: the copy stops at the literal 4 and
\* the extension adds floor(2.25 * 1) = 2
C24_ExtensionBelowLiteral ==
    /\ generator = "gaps_ciura"
    /\ max_gap = 2
    /\ seq.gaps = <<1, 2>>

\* gaps_evolved(max_gap = 3000000) ends with floor(2.25 * 1035711), below
\* its last literal 3236462
C24_EvolvedExtended ==
    /\ generator = "gaps_evolved"
    /\ max_gap = 3000000
    /\ seq.num_gaps = 18
    /\ seq.gaps[18] = 2330349

\* max_gap values for which the copy stops before a literal the 2.25-fold
\* of the last copied one does not reach: there the output is the truncated
\* literal list
C24_TruncatedOnly ==
    (generator \in LiteralGenerators /\ max_gap \in {1, 701, 702, 1000000}) =>
        (\A k \in 1..seq.num_gaps :
             seq.gaps[k] <= BaseList[Len(BaseList)] => seq.gaps[k] \in Members(BaseList))

(***************************************************************************)
(* Index safety of the generators (checked under SpecGen).                 *)
(***************************************************************************)
\* the indices at which the extension loop of the generator called reads
\* seq->gaps, for some value found at gaps[-1]
ExtensionReads ==
    IF generator \in LiteralGenerators
    THEN UNION {extend_reads(copy_base(BaseList, max_gap, <<>>), max_gap, stray) :
                    stray \in Stray}
    ELSE {}

\* C28: for every max_gap >= 0 a generator reads and writes seq->gaps at
\* the indices 0..MAX_GAPS-1 only (never at num_gaps - 1 while num_gaps is
\* 0), returns at most MAX_GAPS gaps and no gap above max_gap; for
\* max_gap = 0 the sequence is empty.
C28_GeneratorsIndexSafe ==
    generator # "none" =>
        /\ seq.num_gaps <= MAX_GAPS
        /\ Len(seq.gaps) = seq.num_gaps
        /\ ExtensionReads \subseteq 0..(MAX_GAPS - 1)
        /\ \A k \in 1..seq.num_gaps : seq.gaps[k] <= max_gap
        /\ max_gap = 0 => seq.num_gaps = 0

\* gaps_ciura(max_gap = 0): nothing is copied and the extension loop reads
\* gaps[num_gaps - 1] with num_gaps = 0
C28_ReadBeforeFirstGap ==
    /\ generator = "gaps_ciura"
    /\ max_gap = 0
    /\ seq.num_gaps = 0
    /\ -1 \in ExtensionReads

\* gaps_skean(max_gap = 0) and gaps_sedgewick86(max_gap = 0) return [1]
C28_GapAboveMaxGap ==
    /\ generator \in {"gaps_skean", "gaps_sedgewick86"}
    /\ max_gap = 0
    /\ seq.gaps = <<1>>

\* with max_gap >= 1 the generators are index-safe
C28_SafeFromOne ==
    (generator # "none" /\ max_gap >= 1) =>
        /\ seq.num_gaps <= MAX_GAPS
        /\ ExtensionReads \subseteq 0..(MAX_GAPS - 1)
        /\ \A k \in 1..seq.num_gaps : seq.gaps[k] <= max_gap

(***************************************************************************)
(* Independence of the trial loop from the threads (checked under          *)
(* SpecTrials).                                                            *)
(***************************************************************************)
\* the threads whose chunk holds trial tr
OwnersOf(tr) ==
    {w \in 1..tthreads :
        FirstTrial(w, ttrials, tthreads) <= tr /\ tr <= LastTrial(w, ttrials, tthreads)}

\* the trials whose scratch array was allocated
TrialsRun == {tr \in AllTrials : tscratch[tr] # "none"}

\* the total a sequential run in index order accumulates over the trials S
SequentialTotal(S) == SumSeq([tr \in 1..ttrials |-> IF tr \in S THEN tcounts[tr] ELSE 0])

\* the parallel region is over and its result is computed
Joined == tpc \in {"report", "returned"} /\ tarrays # "null"

TrialsIndependent ==
    \* every trial is in the chunk of exactly one thread
    /\ \A tr \in AllTrials : Cardinality(OwnersOf(tr)) = 1
    /\ \A tr \in tdone : tscratch[tr] \in {"sorted", "freed"}
    /\ Joined =>
           \* the trials processed are those that got their scratch array:
           \* all of them when no allocation failed
           /\ tdone = TrialsRun
           /\ \A tr \in tdone : tscratch[tr] = "freed"
           /\ KeepsSlots(tprog) => \A tr \in tdone : tslots[tr] = tcounts[tr]
           /\ ~KeepsSlots(tprog) => tresult.total = SequentialTotal(tdone)
           /\ tdone = AllTrials =>
                  /\ tresult.total = SumSeq(tcounts)
                  /\ KeepsSlots(tprog) => tslots = tcounts

TrialsOnceStep ==
    \* a trial stores its counts once: not after it is done
    /\ \A w \in 1..tthreads :
           (wpc[w] = "store" /\ wpc'[w] # "store") => wt[w] \notin tdone
    \* a trial that has freed its scratch array is not run again
    /\ \A tr \in AllTrials : tscratch[tr] = "freed" => tscratch'[tr] = "freed"
    \* a thread takes the trials of its chunk in index order
    /\ \A w \in 1..tthreads : wt'[w] \in {wt[w], wt[w] + 1}
    /\ TrialsIndependent'

C26_OutOfIndexOrder ==
    /\ tprog = "all_baselines_bench"
    /\ tthreads = 2
    /\ ttrials = 3
    /\ wpc = <<"alloc", "done">>
    /\ wt = <<1, 3>>
    /\ tdone = {3}

(***************************************************************************)
(* The statistics are well defined (checked under SpecStats).              *)
(***************************************************************************)
\* a finite number
Finite(x) == x.kind \in {"num", "root"}

\* a <= b for two fractions
dle(a, b) == a.kind = "num" /\ b.kind = "num" /\ a.num * b.den <= b.num * a.den

\* the per-trial slots the statistics read: comp_counts[0] and the slots of
\* the loops over t < trials
SlotsRead == {0} \cup 0..(Len(sa) - 1)

\* the standard error of the differences paired_test divides by
PairedSe ==
    LET cnt == Min(Len(sa), Len(sb))
        diffs == [k \in 1..cnt |-> dsub(Dbl(sa[k], 1), Dbl(sb[k], 1))]
    IN  div_sqrt(dsqrt(ddiv(sum_sq(diffs, ddiv(dsum(diffs), Dbl(cnt, 1))),
                            Dbl(cnt - 1, 1))), cnt)

BenchDefined ==
    sbench # NoStats =>
        /\ Len(sa) # 0
        /\ population_denominator(Len(sa)) # 0
        /\ SlotsRead \subseteq 0..(Len(sa) - 1)
        /\ Finite(sbench.mean) /\ Finite(sbench.stddev) /\ Finite(sbench.stderr)
        /\ dle(sbench.min, sbench.mean)
        /\ dle(sbench.mean, sbench.max)

FullDefined ==
    sfull # NoStats =>
        /\ Len(sa) # 0
        /\ sample_denominator(Len(sa)) # 0
        /\ Finite(sfull.mean) /\ Finite(sfull.stddev) /\ Finite(sfull.stderr)

PairedDefined ==
    spaired # NoPaired =>
        /\ Min(Len(sa), Len(sb)) - 1 # 0
        /\ Finite(PairedSe) /\ dsquare(PairedSe).num # 0
        /\ Finite(spaired.mean_diff)
        /\ Finite(spaired.t_stat.abs)
        /\ spaired.p_approx.kind \in {"num", "erfc"}

\* C30: for every dataset with trials >= 1 the statistics never divide by
\* zero (by trials, by trials - 1, by a zero standard error of the
\* differences), never read a per-trial slot outside 0..trials-1, and the
\* reported comparisons satisfy min <= mean <= max.
C30_StatisticsDefined == BenchDefined /\ FullDefined /\ PairedDefined

\* full_bench.c compute_stats on a single trial: var / (trials - 1) is
\* 0.0 / 0, stddev_comps and stderr_comps are NaN
C30_SingleTrialNaN ==
    /\ Len(sa) = 1
    /\ sfull # NoStats
    /\ sfull.mean = Dbl(sa[1], 1)
    /\ sfull.stddev = NaN
    /\ sfull.stderr = NaN

\* paired_test on vectors that differ by a constant: the standard error is
\* 0 and t_stat is an infinity
C30_ZeroStandardError ==
    /\ Len(sa) = 2
    /\ sa = <<10, 12>> /\ sb = <<8, 10>>
    /\ spaired # NoPaired
    /\ spaired.t_stat.abs = Inf(1)

\* the statistics of bench.c are well defined, with min <= mean <= max
C30_BenchDefined == BenchDefined

\* compute_stats is well defined from two trials on
C30_FullDefinedFromTwo == Len(sa) >= 2 => FullDefined

====
